---- MODULE Spec2Model ----
(***************************************************************************)
(* NSequence (nsequence/nsequence.py): a sequence defined by a generator   *)
(* function over an index domain, with position based access, inversion    *)
(* and nearest-entry search.                                               *)
(*                                                                         *)
(* Python values are records [t, q]: t is the Python type ("int", "float", *)
(* "none", "str") and q is FOUR TIMES the numeric value, so that the       *)
(* quarters, halves and integers the caller-supplied functions produce are *)
(* all exact.  Every operation is an operator taking the instance `self`   *)
(* and returning an outcome [exc, val, list, calls]: the exception raised  *)
(* ("ok" when the call returns), the returned value, the returned list or  *)
(* tuple, and the trace of the calls made to the caller-supplied           *)
(* functions, in order.  The operators give the outcome a call computes;   *)
(* the lru_cache wrappers return that same outcome again for arguments     *)
(* they hold, without the calls.                                           *)
(*                                                                         *)
(* State: kwargs are the keyword arguments of the construction, self the   *)
(* attributes __init__ set (NoInstance when it raised), ret the outcome of *)
(* the last call, _iter_position the cursor attribute of the iterator      *)
(* protocol (Absent until __iter__ or __next__ creates it), and nexts the  *)
(* number of __next__ calls made, in total and since the last __iter__.    *)
(* caches holds, for each method wrapped by functools.lru_cache, the       *)
(* entries of the one cache its wrapper keeps for the class, least         *)
(* recently used first.                                                    *)
(* Spec is the machine of the public methods, each call taken as the       *)
(* computation it runs; SpecSeq is the machine of the container and        *)
(* iterator protocols; SpecCache is the machine of the memoized methods    *)
(* called on two instances through their lru_cache wrappers.               *)
(***************************************************************************)
EXTENDS Integers, Sequences, FiniteSets, TLC

VARIABLES kwargs, self, ret, _iter_position, nexts, caches

vars == <<kwargs, self, ret, _iter_position, nexts, caches>>

-----------------------------------------------------------------------------
(* Bounds of the model *)

\* largest position / index / count argument a caller passes
MaxArg == 4

\* module constants of nsequence.py (POSITION_LIMIT is 1_000_000 in the
\* source; the scans it bounds are modelled with a small value)
POSITION_LIMIT == 5

DEFAULT_INITIAL_INDEX == 0

\* maxsize of the lru_cache wrappers (128 in the source)
LRU_CACHE_MAX_SIZE == 2

INITIAL_POSITION == 1

-----------------------------------------------------------------------------
(* Python values *)

Int_(n) == [t |-> "int", q |-> 4 * n]

Float_(q) == [t |-> "float", q |-> q]

None == [t |-> "none", q |-> 0]

Str == [t |-> "str", q |-> 0]

\* isinstance(value, number) with number = int | float
IsNumber(v) == v.t \in {"int", "float"}

\* Python truthiness of a value, as used by `x or default`
Truthy(v) == IF IsNumber(v) THEN v.q # 0 ELSE v.t = "str"

\* `value or default`
OrDefault(v, d) == IF Truthy(v) THEN v ELSE d

\* Python ==: numbers compare by value, None and the string by identity
PyEq(a, b) ==
    IF IsNumber(a) /\ IsNumber(b) THEN a.q = b.q
    ELSE a.t = b.t

\* type of the result of an arithmetic operation on two numbers
NumT(a, b) == IF a.t = "int" /\ b.t = "int" THEN "int" ELSE "float"

\* int(value) of an integral number
PyInt(v) == [t |-> "int", q |-> v.q]

\* math.floor and math.ceil of a number, as Python ints
PyFloor(v) == [t |-> "int", q |-> 4 * (v.q \div 4)]

PyCeil(v) == [t |-> "int", q |-> 4 * (0 - ((0 - v.q) \div 4))]

AbsQ(q) == IF q < 0 THEN 0 - q ELSE q

-----------------------------------------------------------------------------
(* Outcomes of calls *)

Ok(v, c) == [exc |-> "ok", val |-> v, list |-> <<>>, calls |-> c]

OkList(l, c) == [exc |-> "ok", val |-> None, list |-> l, calls |-> c]

Raise(e, c) == [exc |-> e, val |-> None, list |-> <<>>, calls |-> c]

\* outcome b, reached after the calls of outcome a
After(a, b) == [b EXCEPT !.calls = a.calls \o @]

\* outcome b, reached after the calls of the trace c
WithCalls(c, b) == [b EXCEPT !.calls = c \o @]

-----------------------------------------------------------------------------
(* The caller-supplied functions.  A function argument is the name of a    *)
(* function of this library, or NoFunc for Python's None.                  *)

NoFunc == "None"

\* the function objects a caller passes as func, inverse_func,
\* indexing_func and indexing_inverse_func
Lib(f, x) ==
    IF f = "identity_x" THEN [exc |-> "ok", val |-> x]
    ELSE IF f = "none_x" THEN [exc |-> "ok", val |-> None]
    ELSE IF ~IsNumber(x) THEN [exc |-> "TypeError", val |-> None]
    ELSE IF f = "shift_x"
        \* lambda x: x + 3
        THEN [exc |-> "ok", val |-> [t |-> x.t, q |-> x.q + 12]]
    ELSE IF f = "unshift_x"
        \* lambda x: x - 3
        THEN [exc |-> "ok", val |-> [t |-> x.t, q |-> x.q - 12]]
    ELSE IF f = "absolute_x"
        \* lambda x: abs(x - 2)
        THEN [exc |-> "ok", val |-> [t |-> x.t, q |-> AbsQ(x.q - 8)]]
    ELSE IF f = "double_x"
        \* lambda x: 2 * x - 3
        THEN [exc |-> "ok", val |-> [t |-> x.t, q |-> 2 * x.q - 12]]
    ELSE IF f = "half_up_x"
        \* lambda x: (x + 3) / 2, exact on integers and halves
        THEN [exc |-> "ok", val |-> [t |-> "float", q |-> (x.q + 12) \div 2]]
    ELSE IF f = "floordiv_x"
        \* lambda x: 12 // x
        THEN IF x.q = 0 THEN [exc |-> "ZeroDivisionError", val |-> None]
             ELSE IF x.q > 0
             THEN [exc |-> "ok", val |-> [t |-> x.t, q |-> 4 * (48 \div x.q)]]
             ELSE [exc |-> "ok",
                   val |-> [t |-> x.t, q |-> 4 * ((0 - 48) \div (0 - x.q))]]
    ELSE [exc |-> "TypeError", val |-> None]

\* a call of a caller-supplied function in role `role`, recorded in the trace
Call(role, f, x) ==
    LET r == Lib(f, x)
    IN [exc |-> r.exc, val |-> r.val, list |-> <<>>,
        calls |-> << <<role, x>> >>]

-----------------------------------------------------------------------------
(* NSequence.__init__ *)

\* inspect.isfunction(f): None and the objects that are not functions (a
\* string, the class `list`) are not
IsFunction(f) == f \notin {NoFunc, "not_a_function"}

\* len(inspect.signature(f).parameters)
Arity(f) ==
    IF f = "zero_args" THEN 0
    ELSE IF f = "two_args_xy" THEN 2
    ELSE 1

\* the exception _validate_func raises, "ok" when it returns
_validate_func(func_to_validate, expected_arity, is_optional) ==
    IF is_optional /\ func_to_validate = NoFunc THEN "ok"
    ELSE IF ~IsFunction(func_to_validate) THEN "TypeError"
    ELSE IF Arity(func_to_validate) # expected_arity THEN "ArityMismatchError"
    ELSE "ok"

ValidateFuncsMutOrder(kw) ==
    \* slip: the optional functions are validated before func
    LET first == _validate_func(kw.inverse_func, 1, TRUE)
        second == _validate_func(kw.indexing_func, 1, TRUE)
        third == _validate_func(kw.indexing_inverse_func, 1, TRUE)
    IN IF first # "ok" THEN first
       ELSE IF second # "ok" THEN second
       ELSE IF third # "ok" THEN third
       ELSE _validate_func(kw.func, 1, FALSE)

\* the validations at the head of __init__: func, then the optional
\* functions in the order of _optional_funcs_entries; the exception of the
\* first that fails, "ok" when all pass
ValidateFuncs(kw) ==
    LET first == _validate_func(kw.func, 1, FALSE)
        second == _validate_func(kw.inverse_func, 1, TRUE)
        third == _validate_func(kw.indexing_func, 1, TRUE)
    IN IF first # "ok" THEN first
       ELSE IF second # "ok" THEN second
       ELSE IF third # "ok" THEN third
       ELSE _validate_func(kw.indexing_inverse_func, 1, TRUE)

\* the value of `self` when __init__ raised: no instance was bound
NoInstance == [_func |-> NoFunc]

NSequenceInitMutIdx(kw) ==
    [_func |-> kw.func,
     _inverse_func |-> kw.inverse_func,
     _indexing_func |->
        IF kw.indexing_func # NoFunc THEN kw.indexing_func ELSE "default",
     _indexing_inverse_func |->
        IF kw.indexing_func # NoFunc THEN kw.indexing_inverse_func
        ELSE "default",
     \* slip: the initial index passed by the caller wins over indexing_func
     _initial_index |-> OrDefault(kw.initial_index, Int_(DEFAULT_INITIAL_INDEX)),
     _position_limit |-> OrDefault(kw.position_limit, Int_(POSITION_LIMIT))]

\* the attributes __init__ sets; "default" names the two lambdas of the
\* else branch, which read self._initial_index when they are called
NSequenceInit(kw) ==
    [_func |-> kw.func,
     _inverse_func |-> kw.inverse_func,
     _indexing_func |->
        IF kw.indexing_func # NoFunc THEN kw.indexing_func ELSE "default",
     _indexing_inverse_func |->
        IF kw.indexing_func # NoFunc THEN kw.indexing_inverse_func
        ELSE "default",
     _initial_index |->
        IF kw.indexing_func # NoFunc
        THEN Lib(kw.indexing_func, Int_(INITIAL_POSITION)).val
        ELSE OrDefault(kw.initial_index, Int_(DEFAULT_INITIAL_INDEX)),
     _position_limit |-> OrDefault(kw.position_limit, Int_(POSITION_LIMIT))]

\* self._indexing_func(position)
IndexingFunc(s, position) ==
    IF s._indexing_func = "default"
    THEN \* lambda position: self._initial_index + position - 1
         IF IsNumber(position) /\ IsNumber(s._initial_index)
         THEN [exc |-> "ok",
               val |-> [t |-> NumT(s._initial_index, position),
                        q |-> s._initial_index.q + position.q - 4],
               list |-> <<>>, calls |-> << <<"indexing_func", position>> >>]
         ELSE Raise("TypeError", << <<"indexing_func", position>> >>)
    ELSE Call("indexing_func", s._indexing_func, position)

\* self._indexing_inverse_func(index)
IndexingInverseFunc(s, index) ==
    IF s._indexing_inverse_func = "default"
    THEN \* lambda index: index - self._initial_index + 1
         IF IsNumber(index) /\ IsNumber(s._initial_index)
         THEN [exc |-> "ok",
               val |-> [t |-> NumT(s._initial_index, index),
                        q |-> index.q - s._initial_index.q + 4],
               list |-> <<>>,
               calls |-> << <<"indexing_inverse_func", index>> >>]
         ELSE Raise("TypeError", << <<"indexing_inverse_func", index>> >>)
    ELSE Call("indexing_inverse_func", s._indexing_inverse_func, index)

-----------------------------------------------------------------------------
(* Validation *)

_is_integer(value) == IsNumber(value) /\ value.q % 4 = 0

\* TRUE when _validate_integers raises ValueError; a bound of None is the
\* infinite default
_validate_integers(values, min_value, max_value) ==
    \E i \in 1..Len(values) :
        \/ ~_is_integer(values[i])
        \/ (min_value # None /\ min_value.q > values[i].q)
        \/ (max_value # None /\ max_value.q < values[i].q)

\* TRUE when _validate_positions raises UnexpectedPositionError
_validate_positions(values, min_value, max_value) ==
    _validate_integers(values, OrDefault(min_value, Int_(INITIAL_POSITION)),
                       max_value)

\* TRUE when _validate_indices raises UnexpectedIndexError
_validate_indices(values) == _validate_integers(values, None, None)

-----------------------------------------------------------------------------
(* nth_term and sum_up_to_nth_term *)

nth_termMutNoCheck(s, n) ==
    LET i == IndexingFunc(s, n)
    IN IF i.exc # "ok" THEN i
       ELSE After(i, Call("func", s._func, i.val))

nth_termMutRaw(s, n) ==
    IF _validate_positions(<<n>>, None, None)
    THEN Raise("UnexpectedPositionError", <<>>)
    ELSE Call("func", s._func, n)

nth_term(s, n) ==
    IF _validate_positions(<<n>>, None, None)
    THEN Raise("UnexpectedPositionError", <<>>)
    ELSE LET i == IndexingFunc(s, n)
         IN IF i.exc # "ok" THEN i
            ELSE After(i, Call("func", s._func, i.val))

\* the exceptions sum_up_to_nth_term and nearest_entry turn into
\* NotImplementedError
\* the exceptions `except (TypeError, ValueError, ArithmeticError)` catches;
\* ZeroDivisionError is a subclass of ArithmeticError
ArithmeticFailures ==
    {"TypeError", "ValueError", "ArithmeticError", "ZeroDivisionError"}

\* acc + term, as the builtin sum computes it
PyAdd(acc, term) ==
    IF IsNumber(acc) /\ IsNumber(term)
    THEN [exc |-> "ok", val |-> [t |-> NumT(acc, term), q |-> acc.q + term.q]]
    ELSE [exc |-> "TypeError", val |-> None]

\* sum(self.nth_term(position) for position in range(position, n + 1)),
\* continued from the accumulator acc
RECURSIVE SumTerms(_, _, _, _, _)
SumTerms(s, position, n, acc, calls) ==
    IF position > n THEN Ok(acc, calls)
    ELSE LET term == nth_term(s, Int_(position))
         IN IF term.exc # "ok" THEN WithCalls(calls, term)
            ELSE LET added == PyAdd(acc, term.val)
                 IN IF added.exc # "ok"
                    THEN Raise(added.exc, calls \o term.calls)
                    ELSE SumTerms(s, position + 1, n, added.val,
                                  calls \o term.calls)

sum_up_to_nth_term(s, n) ==
    IF _validate_positions(<<n>>, None, None)
    THEN Raise("UnexpectedPositionError", <<>>)
    ELSE IF n.t # "int"
         \* range(1, n + 1) raises TypeError for a float, inside the try
         THEN Raise("NotImplementedError", <<>>)
         ELSE LET r == SumTerms(s, 1, n.q \div 4, Int_(0), <<>>)
              IN IF r.exc \in ArithmeticFailures
                 THEN Raise("NotImplementedError", r.calls)
                 ELSE r

-----------------------------------------------------------------------------
(* position_of_index *)

RECURSIVE ScanPositionOfIndexMutBound(_, _, _, _)
ScanPositionOfIndexMutBound(s, p, index, calls) ==
    \* slip: the scan runs on past POSITION_LIMIT
    IF p > 2 * POSITION_LIMIT THEN Raise("IndexNotFoundError", calls)
    ELSE LET i == IndexingFunc(s, Int_(p))
         IN IF i.exc # "ok" THEN WithCalls(calls, i)
            ELSE IF PyEq(i.val, index) THEN Ok(Int_(p), calls \o i.calls)
            ELSE ScanPositionOfIndexMutBound(s, p + 1, index,
                                             calls \o i.calls)

\* next(p for p in range(p, POSITION_LIMIT) if self._indexing_func(p) == index)
RECURSIVE ScanPositionOfIndex(_, _, _, _)
ScanPositionOfIndex(s, p, index, calls) ==
    IF p >= POSITION_LIMIT THEN Raise("IndexNotFoundError", calls)
    ELSE LET i == IndexingFunc(s, Int_(p))
         IN IF i.exc # "ok" THEN WithCalls(calls, i)
            ELSE IF PyEq(i.val, index) THEN Ok(Int_(p), calls \o i.calls)
            ELSE ScanPositionOfIndex(s, p + 1, index, calls \o i.calls)

position_of_indexMutScan(s, index) ==
    IF s._indexing_func = "default" THEN IndexingInverseFunc(s, index)
    ELSE ScanPositionOfIndex(s, 1, index, <<>>)

position_of_index(s, index) ==
    IF s._indexing_inverse_func # NoFunc
    THEN IndexingInverseFunc(s, index)
    ELSE ScanPositionOfIndex(s, 1, index, <<>>)

-----------------------------------------------------------------------------
(* index_of_term *)

RECURSIVE ScanPositionOfTermMutLast(_, _, _, _)
ScanPositionOfTermMutLast(s, position, term, calls) ==
    IF position >= POSITION_LIMIT THEN Ok(None, calls)
    ELSE LET nth == nth_term(s, Int_(position))
             rest == ScanPositionOfTermMutLast(s, position + 1, term,
                                               calls \o nth.calls)
         IN IF nth.exc # "ok" THEN WithCalls(calls, nth)
            \* slip: a later match replaces an earlier one
            ELSE IF rest.exc = "ok" /\ rest.val # None THEN rest
            ELSE IF PyEq(nth.val, term)
                 THEN Ok(Int_(position), calls \o nth.calls)
            ELSE rest

\* next((position for position in range(position, POSITION_LIMIT)
\*       if self.nth_term(position) == term), None)
RECURSIVE ScanPositionOfTerm(_, _, _, _)
ScanPositionOfTerm(s, position, term, calls) ==
    IF position >= POSITION_LIMIT THEN Ok(None, calls)
    ELSE LET nth == nth_term(s, Int_(position))
         IN IF nth.exc # "ok" THEN WithCalls(calls, nth)
            ELSE IF PyEq(nth.val, term)
                 THEN Ok(Int_(position), calls \o nth.calls)
            ELSE ScanPositionOfTerm(s, position + 1, term, calls \o nth.calls)

\* the brute-force branch of index_of_term
BruteForceIndexOfTerm(s, term) ==
    LET p == ScanPositionOfTerm(s, 1, term, <<>>)
    IN IF p.exc # "ok" THEN p
       ELSE IF Truthy(p.val) THEN After(p, IndexingFunc(s, p.val))
       ELSE Ok(None, p.calls)

\* the value of `index` before the exact_exception test
RawIndexOfTerm(s, term) ==
    IF s._inverse_func # NoFunc
    THEN Call("inverse_func", s._inverse_func, term)
    ELSE BruteForceIndexOfTerm(s, term)

index_of_termMutTrunc(s, term, inversion_technic, exact_exception) ==
    IF s._inverse_func = NoFunc /\ inversion_technic
    THEN Raise("InversionError", <<>>)
    ELSE LET index == RawIndexOfTerm(s, term)
         IN IF index.exc # "ok" THEN index
            ELSE IF ~exact_exception THEN index
            ELSE IF ~IsNumber(index.val)
                 THEN Raise("UnexpectedIndexError", index.calls)
            \* slip: int(index) without the integrality check
            ELSE Ok(PyFloor(index.val), index.calls)

index_of_termMutGuard(s, term, inversion_technic, exact_exception) ==
    \* slip: the InversionError guard ignores inversion_technic
    IF s._inverse_func = NoFunc
    THEN Raise("InversionError", <<>>)
    ELSE LET index == RawIndexOfTerm(s, term)
         IN IF index.exc # "ok" THEN index
            ELSE IF ~exact_exception THEN index
            ELSE IF _validate_indices(<<index.val>>)
                 THEN Raise("UnexpectedIndexError", index.calls)
            ELSE Ok(PyInt(index.val), index.calls)

index_of_term(s, term, inversion_technic, exact_exception) ==
    IF s._inverse_func = NoFunc /\ inversion_technic
    THEN Raise("InversionError", <<>>)
    ELSE LET index == RawIndexOfTerm(s, term)
         IN IF index.exc # "ok" THEN index
            ELSE IF ~exact_exception THEN index
            ELSE IF _validate_indices(<<index.val>>)
                 THEN Raise("UnexpectedIndexError", index.calls)
            ELSE Ok(PyInt(index.val), index.calls)

-----------------------------------------------------------------------------
(* count_terms_between_indices, terms_between_indices and the variants     *)
(* that take terms                                                         *)

_count_positions_betweenMutNoAbs(position1, position2) ==
    \* slip: position2 - position1 + 1, without abs
    [t |-> NumT(position1, position2),
     q |-> position2.q - position1.q + 4]

\* abs(position2 - position1) + 1
_count_positions_between(position1, position2) ==
    [t |-> NumT(position1, position2),
     q |-> AbsQ(position2.q - position1.q) + 4]

count_terms_between_indices(s, index1, index2) ==
    LET index1_position == position_of_index(s, index1)
    IN IF index1_position.exc # "ok" THEN index1_position
       ELSE LET index2_position ==
                    After(index1_position, position_of_index(s, index2))
            IN IF index2_position.exc # "ok" THEN index2_position
               ELSE IF _validate_positions(
                           <<index1_position.val, index2_position.val>>,
                           None, None)
                    THEN Raise("UnexpectedPositionError", index2_position.calls)
               ELSE Ok(_count_positions_between(index1_position.val,
                                                index2_position.val),
                       index2_position.calls)

\* a < b between two Python values: [exc, val] with val a Boolean
PyLess(a, b) ==
    IF IsNumber(a) /\ IsNumber(b) THEN [exc |-> "ok", val |-> a.q < b.q]
    ELSE IF a.t = "str" /\ b.t = "str" THEN [exc |-> "ok", val |-> FALSE]
    ELSE [exc |-> "TypeError", val |-> FALSE]

\* min(a, b) and max(a, b) of the builtins: the first argument wins a tie
PyMin(a, b) ==
    LET lt == PyLess(b, a)
    IN [exc |-> lt.exc, val |-> IF lt.val THEN b ELSE a]

PyMax(a, b) ==
    LET gt == PyLess(a, b)
    IN [exc |-> gt.exc, val |-> IF gt.val THEN b ELSE a]

\* [self.nth_term(position) for position in range(position, stop)]
RECURSIVE TermsOfRange(_, _, _, _, _)
TermsOfRange(s, position, stop, terms, calls) ==
    IF position >= stop THEN OkList(terms, calls)
    ELSE LET nth == nth_term(s, Int_(position))
         IN IF nth.exc # "ok" THEN WithCalls(calls, nth)
            ELSE TermsOfRange(s, position + 1, stop, Append(terms, nth.val),
                              calls \o nth.calls)

\* the body of terms_between_indices once index1 and index2 are normalised
TermsBetweenOrdered(s, index1, index2) ==
    LET index1_position == position_of_index(s, index1)
    IN IF index1_position.exc # "ok" THEN index1_position
       ELSE LET index2_position ==
                    After(index1_position, position_of_index(s, index2))
            IN IF index2_position.exc # "ok" THEN index2_position
               ELSE IF index1_position.val.t # "int"
                       \/ index2_position.val.t # "int"
                    \* range() takes ints only
                    THEN Raise("TypeError", index2_position.calls)
               ELSE TermsOfRange(s, index1_position.val.q \div 4,
                                 (index2_position.val.q \div 4) + 1, <<>>,
                                 index2_position.calls)

terms_between_indices(s, index1, index2) ==
    \* index1 = min(index1, index2)
    LET lo == PyMin(index1, index2)
    IN IF lo.exc # "ok" THEN Raise(lo.exc, <<>>)
       ELSE \* index2 = max(index1, index2), index1 being the new index1
            LET hi == PyMax(lo.val, index2)
            IN IF hi.exc # "ok" THEN Raise(hi.exc, <<>>)
               ELSE TermsBetweenOrdered(s, lo.val, hi.val)

\* the first lines of count_terms_between_terms and terms_between_terms:
\* the InversionError guard, the two inverse_func calls and _validate_indices;
\* list holds the two indices converted with int()
IndicesOfTerms(s, term1, term2) ==
    IF s._inverse_func = NoFunc THEN Raise("InversionError", <<>>)
    ELSE LET term1_index == Call("inverse_func", s._inverse_func, term1)
         IN IF term1_index.exc # "ok" THEN term1_index
            ELSE LET term2_index ==
                         After(term1_index,
                               Call("inverse_func", s._inverse_func, term2))
                 IN IF term2_index.exc # "ok" THEN term2_index
                    ELSE IF _validate_indices(
                                <<term1_index.val, term2_index.val>>)
                         THEN Raise("UnexpectedIndexError", term2_index.calls)
                    ELSE OkList(<<PyInt(term1_index.val),
                                  PyInt(term2_index.val)>>,
                                term2_index.calls)

count_terms_between_terms(s, term1, term2) ==
    LET ix == IndicesOfTerms(s, term1, term2)
    IN IF ix.exc # "ok" THEN ix
       ELSE After(ix, count_terms_between_indices(s, ix.list[1], ix.list[2]))

terms_between_terms(s, term1, term2) ==
    LET ix == IndicesOfTerms(s, term1, term2)
    IN IF ix.exc # "ok" THEN ix
       ELSE After(ix, terms_between_indices(s, ix.list[1], ix.list[2]))

-----------------------------------------------------------------------------
(* nearest_entry *)

\* abs(a - b): [exc, val]
PyAbsDiff(a, b) ==
    IF IsNumber(a) /\ IsNumber(b)
    THEN [exc |-> "ok", val |-> [t |-> NumT(a, b), q |-> AbsQ(a.q - b.q)]]
    ELSE [exc |-> "TypeError", val |-> None]

\* float("inf") as the initial min_distance
Inf == [t |-> "float", q |-> -1]

\* the for loop of _naively_get_sequence_nearest_entry over the pairs that
\* _create_sequence_pairs_generator yields for range(position, stop)
RECURSIVE NaiveScanMutTie(_, _, _, _, _, _, _, _)
NaiveScanMutTie(s, position, stop, term_neighbor, prefer_left_term, min_distance, nearest, calls) ==
    IF position >= stop THEN OkList(nearest, calls)
    ELSE
    LET position_index == IndexingFunc(s, Int_(position))
    IN IF position_index.exc # "ok" THEN WithCalls(calls, position_index)
       ELSE
       LET term == After(position_index,
                         Call("func", s._func, position_index.val))
       IN IF term.exc # "ok" THEN WithCalls(calls, term)
          ELSE
          LET distance == PyAbsDiff(term.val, term_neighbor)
              seen == calls \o term.calls
          IN IF distance.exc # "ok" THEN Raise(distance.exc, seen)
             ELSE
             LET better ==
                    \* slip: a tie always replaces the current best
                    \/ (min_distance # Inf
                        /\ distance.val.q = min_distance.q)
                    \/ min_distance = Inf
                    \/ distance.val.q < min_distance.q
                 new_min == IF better THEN distance.val ELSE min_distance
                 new_nearest ==
                    IF better THEN <<position_index.val, term.val>>
                    ELSE nearest
             IN IF prefer_left_term /\ distance.val.q = 0
                THEN OkList(new_nearest, seen)
                ELSE NaiveScanMutTie(s, position + 1, stop, term_neighbor,
                               prefer_left_term, new_min, new_nearest, seen)

RECURSIVE NaiveScanMutExit(_, _, _, _, _, _, _, _)
NaiveScanMutExit(s, position, stop, term_neighbor, prefer_left_term, min_distance, nearest, calls) ==
    IF position >= stop THEN OkList(nearest, calls)
    ELSE
    LET position_index == IndexingFunc(s, Int_(position))
    IN IF position_index.exc # "ok" THEN WithCalls(calls, position_index)
       ELSE
       LET term == After(position_index,
                         Call("func", s._func, position_index.val))
       IN IF term.exc # "ok" THEN WithCalls(calls, term)
          ELSE
          LET distance == PyAbsDiff(term.val, term_neighbor)
              seen == calls \o term.calls
          IN IF distance.exc # "ok" THEN Raise(distance.exc, seen)
             ELSE
             LET better ==
                    \/ (min_distance # Inf
                        /\ distance.val.q = min_distance.q
                        /\ ~prefer_left_term)
                    \/ min_distance = Inf
                    \/ distance.val.q < min_distance.q
                 new_min == IF better THEN distance.val ELSE min_distance
                 new_nearest ==
                    IF better THEN <<position_index.val, term.val>>
                    ELSE nearest
             \* slip: an exact match ends the scan under either preference
             IN IF distance.val.q = 0
                THEN OkList(new_nearest, seen)
                ELSE NaiveScanMutExit(s, position + 1, stop, term_neighbor,
                               prefer_left_term, new_min, new_nearest, seen)

RECURSIVE NaiveScan(_, _, _, _, _, _, _, _)
NaiveScan(s, position, stop, term_neighbor, prefer_left_term, min_distance, nearest, calls) ==
    IF position >= stop THEN OkList(nearest, calls)
    ELSE
    LET position_index == IndexingFunc(s, Int_(position))
    IN IF position_index.exc # "ok" THEN WithCalls(calls, position_index)
       ELSE
       LET term == After(position_index,
                         Call("func", s._func, position_index.val))
       IN IF term.exc # "ok" THEN WithCalls(calls, term)
          ELSE
          LET distance == PyAbsDiff(term.val, term_neighbor)
              seen == calls \o term.calls
          IN IF distance.exc # "ok" THEN Raise(distance.exc, seen)
             ELSE
             LET better ==
                    \/ (min_distance # Inf
                        /\ distance.val.q = min_distance.q
                        /\ ~prefer_left_term)
                    \/ min_distance = Inf
                    \/ distance.val.q < min_distance.q
                 new_min == IF better THEN distance.val ELSE min_distance
                 new_nearest ==
                    IF better THEN <<position_index.val, term.val>>
                    ELSE nearest
             IN IF prefer_left_term /\ distance.val.q = 0
                THEN OkList(new_nearest, seen)
                ELSE NaiveScan(s, position + 1, stop, term_neighbor,
                               prefer_left_term, new_min, new_nearest, seen)

_naively_get_sequence_nearest_entryMutStart(s, term_neighbor, starting_position, iter_limit, prefer_left_term) ==
    LET limit == OrDefault(iter_limit, s._position_limit)
        start == OrDefault(starting_position, Int_(INITIAL_POSITION))
    IN IF limit.t # "int" \/ start.t # "int"
       THEN Raise("TypeError", <<>>)
       \* slip: the scan always starts at the first position
       ELSE NaiveScan(s, INITIAL_POSITION, INITIAL_POSITION + (limit.q \div 4),
                      term_neighbor, prefer_left_term, Inf, <<None, None>>,
                      <<>>)

_naively_get_sequence_nearest_entry(s, term_neighbor, starting_position, iter_limit, prefer_left_term) ==
    LET limit == OrDefault(iter_limit, s._position_limit)
        start == OrDefault(starting_position, Int_(INITIAL_POSITION))
    IN IF limit.t # "int" \/ start.t # "int"
       \* range() takes ints only
       THEN Raise("TypeError", <<>>)
       ELSE NaiveScan(s, start.q \div 4, (start.q \div 4) + (limit.q \div 4),
                      term_neighbor, prefer_left_term, Inf, <<None, None>>,
                      <<>>)

NearestOfBracketsMutClamp(s, term_neighbor, term_neighbor_position, prefer_left_term, calls) ==
    IF ~IsNumber(term_neighbor_position) THEN Raise("TypeError", calls)
    ELSE
    \* slip: a left bracket before the first position is moved onto it
    LET left_nearest_term_position ==
            IF PyFloor(term_neighbor_position).q < 4 THEN Int_(INITIAL_POSITION)
            ELSE PyFloor(term_neighbor_position)
        right_nearest_term_position == PyCeil(term_neighbor_position)
        left_nearest_term ==
            WithCalls(calls, nth_term(s, left_nearest_term_position))
    IN IF left_nearest_term.exc # "ok" THEN left_nearest_term
       ELSE
       LET right_nearest_term ==
               After(left_nearest_term,
                     nth_term(s, right_nearest_term_position))
       IN IF right_nearest_term.exc # "ok" THEN right_nearest_term
          ELSE
          LET left_distance_to_neighbor ==
                  PyAbsDiff(term_neighbor, left_nearest_term.val)
              right_distance_to_neighbor ==
                  PyAbsDiff(term_neighbor, right_nearest_term.val)
              seen == right_nearest_term.calls
          IN IF left_distance_to_neighbor.exc # "ok"
             THEN Raise(left_distance_to_neighbor.exc, seen)
             ELSE IF right_distance_to_neighbor.exc # "ok"
             THEN Raise(right_distance_to_neighbor.exc, seen)
             ELSE
             LET nearest_term_position ==
                    IF ~prefer_left_term
                       /\ left_distance_to_neighbor.val.q
                            = right_distance_to_neighbor.val.q
                    THEN right_nearest_term_position
                    ELSE IF left_distance_to_neighbor.val.q
                              > right_distance_to_neighbor.val.q
                    THEN right_nearest_term_position
                    ELSE left_nearest_term_position
                 nearest_index ==
                    WithCalls(seen, IndexingFunc(s, nearest_term_position))
             IN IF nearest_index.exc # "ok" THEN nearest_index
                ELSE LET nearest ==
                            After(nearest_index,
                                  nth_term(s, nearest_term_position))
                     IN IF nearest.exc # "ok" THEN nearest
                        ELSE OkList(<<nearest_index.val, nearest.val>>,
                                    nearest.calls)

NearestOfBracketsMutFar(s, term_neighbor, term_neighbor_position, prefer_left_term, calls) ==
    IF ~IsNumber(term_neighbor_position) THEN Raise("TypeError", calls)
    ELSE
    LET left_nearest_term_position == PyFloor(term_neighbor_position)
        right_nearest_term_position == PyCeil(term_neighbor_position)
        left_nearest_term ==
            WithCalls(calls, nth_term(s, left_nearest_term_position))
    IN IF left_nearest_term.exc # "ok" THEN left_nearest_term
       ELSE
       LET right_nearest_term ==
               After(left_nearest_term,
                     nth_term(s, right_nearest_term_position))
       IN IF right_nearest_term.exc # "ok" THEN right_nearest_term
          ELSE
          LET left_distance_to_neighbor ==
                  PyAbsDiff(term_neighbor, left_nearest_term.val)
              right_distance_to_neighbor ==
                  PyAbsDiff(term_neighbor, right_nearest_term.val)
              seen == right_nearest_term.calls
          IN IF left_distance_to_neighbor.exc # "ok"
             THEN Raise(left_distance_to_neighbor.exc, seen)
             ELSE IF right_distance_to_neighbor.exc # "ok"
             THEN Raise(right_distance_to_neighbor.exc, seen)
             ELSE
             LET nearest_term_position ==
                    IF ~prefer_left_term
                       /\ left_distance_to_neighbor.val.q
                            = right_distance_to_neighbor.val.q
                    THEN right_nearest_term_position
                    \* slip: the comparison is reversed
                    ELSE IF left_distance_to_neighbor.val.q
                              < right_distance_to_neighbor.val.q
                    THEN right_nearest_term_position
                    ELSE left_nearest_term_position
                 nearest_index ==
                    WithCalls(seen, IndexingFunc(s, nearest_term_position))
             IN IF nearest_index.exc # "ok" THEN nearest_index
                ELSE LET nearest ==
                            After(nearest_index,
                                  nth_term(s, nearest_term_position))
                     IN IF nearest.exc # "ok" THEN nearest
                        ELSE OkList(<<nearest_index.val, nearest.val>>,
                                    nearest.calls)

\* the end of _inversely_get_sequence_nearest_entry: the two bracketing
\* positions, their terms, the tie-break and the returned entry
NearestOfBrackets(s, term_neighbor, term_neighbor_position, prefer_left_term, calls) ==
    IF ~IsNumber(term_neighbor_position) THEN Raise("TypeError", calls)
    ELSE
    LET left_nearest_term_position == PyFloor(term_neighbor_position)
        right_nearest_term_position == PyCeil(term_neighbor_position)
        left_nearest_term ==
            WithCalls(calls, nth_term(s, left_nearest_term_position))
    IN IF left_nearest_term.exc # "ok" THEN left_nearest_term
       ELSE
       LET right_nearest_term ==
               After(left_nearest_term,
                     nth_term(s, right_nearest_term_position))
       IN IF right_nearest_term.exc # "ok" THEN right_nearest_term
          ELSE
          LET left_distance_to_neighbor ==
                  PyAbsDiff(term_neighbor, left_nearest_term.val)
              right_distance_to_neighbor ==
                  PyAbsDiff(term_neighbor, right_nearest_term.val)
              seen == right_nearest_term.calls
          IN IF left_distance_to_neighbor.exc # "ok"
             THEN Raise(left_distance_to_neighbor.exc, seen)
             ELSE IF right_distance_to_neighbor.exc # "ok"
             THEN Raise(right_distance_to_neighbor.exc, seen)
             ELSE
             LET nearest_term_position ==
                    IF ~prefer_left_term
                       /\ left_distance_to_neighbor.val.q
                            = right_distance_to_neighbor.val.q
                    THEN right_nearest_term_position
                    ELSE IF left_distance_to_neighbor.val.q
                              > right_distance_to_neighbor.val.q
                    THEN right_nearest_term_position
                    ELSE left_nearest_term_position
                 nearest_index ==
                    WithCalls(seen, IndexingFunc(s, nearest_term_position))
             IN IF nearest_index.exc # "ok" THEN nearest_index
                ELSE LET nearest ==
                            After(nearest_index,
                                  nth_term(s, nearest_term_position))
                     IN IF nearest.exc # "ok" THEN nearest
                        ELSE OkList(<<nearest_index.val, nearest.val>>,
                                    nearest.calls)

_inversely_get_sequence_nearest_entry(s, term_neighbor, prefer_left_term) ==
    LET term_neighbor_index == Call("inverse_func", s._inverse_func,
                                    term_neighbor)
    IN IF term_neighbor_index.exc # "ok" THEN term_neighbor_index
       ELSE
       LET term_neighbor_position ==
               After(term_neighbor_index,
                     position_of_index(s, term_neighbor_index.val))
       IN IF term_neighbor_position.exc # "ok" THEN term_neighbor_position
          ELSE IF _is_integer(term_neighbor_position.val)
                  /\ ~_is_integer(term_neighbor_index.val)
               THEN Raise("UnexpectedIndexError", term_neighbor_position.calls)
          ELSE IF _is_integer(term_neighbor_position.val)
                  /\ _is_integer(term_neighbor_index.val)
               THEN OkList(<<term_neighbor_index.val, term_neighbor>>,
                           term_neighbor_position.calls)
          ELSE NearestOfBrackets(s, term_neighbor, term_neighbor_position.val,
                                 prefer_left_term,
                                 term_neighbor_position.calls)

nearest_entryMutFallback(s, term_neighbor, inversion_technic, starting_position, iter_limit, prefer_left_term) ==
    \* slip: the strategy follows the presence of inverse_func
    IF s._inverse_func # NoFunc
    THEN _inversely_get_sequence_nearest_entry(s, term_neighbor,
                                               prefer_left_term)
    ELSE IF inversion_technic THEN Raise("InversionError", <<>>)
    ELSE LET r == _naively_get_sequence_nearest_entry(
                      s, term_neighbor,
                      OrDefault(starting_position, Int_(INITIAL_POSITION)),
                      OrDefault(iter_limit, s._position_limit),
                      prefer_left_term)
         IN IF r.exc \in ArithmeticFailures
            THEN Raise("NotImplementedError", r.calls)
            ELSE r

nearest_entry(s, term_neighbor, inversion_technic, starting_position, iter_limit, prefer_left_term) ==
    IF inversion_technic
    THEN IF s._inverse_func = NoFunc THEN Raise("InversionError", <<>>)
         ELSE _inversely_get_sequence_nearest_entry(s, term_neighbor,
                                                    prefer_left_term)
    ELSE LET r == _naively_get_sequence_nearest_entry(
                      s, term_neighbor,
                      OrDefault(starting_position, Int_(INITIAL_POSITION)),
                      OrDefault(iter_limit, s._position_limit),
                      prefer_left_term)
         IN IF r.exc \in ArithmeticFailures
            THEN Raise("NotImplementedError", r.calls)
            ELSE r

-----------------------------------------------------------------------------
(* Properties *)

initial_index(s) == Ok(s._initial_index, <<>>)

initial_term(s) == Call("func", s._func, s._initial_index)

-----------------------------------------------------------------------------
(* functools.lru_cache(maxsize=LRU_CACHE_MAX_SIZE), as it wraps a method:  *)
(* one cache per decorated function, shared by every instance of the       *)
(* class; the key is made of the arguments of the call, `self` included;   *)
(* keys are compared with ==, so 1 and 1.0 are the same key.               *)

\* the methods that carry the decorator
CachedMethods ==
    {"index_of_term", "position_of_index",
     "_naively_get_sequence_nearest_entry",
     "_inversely_get_sequence_nearest_entry"}

\* what a value contributes to the hash and equality of a key: numbers
\* count by value, whatever their type
KeyOf(v) == IF IsNumber(v) THEN <<"number", v.q>> ELSE <<v.t, 0>>

\* the key of a call: the instance, the values and the flags passed
CacheKey(instance, values, flags) ==
    [instance |-> instance,
     values |-> [k \in 1..Len(values) |-> KeyOf(values[k])],
     flags |-> flags]

\* the place of the key in the cache, 0 when it is not there
CachePlace(cache, key) ==
    IF \E k \in 1..Len(cache) : cache[k].key = key
    THEN CHOOSE k \in 1..Len(cache) : cache[k].key = key
    ELSE 0

\* the cache without its k-th entry
WithoutPlace(cache, k) ==
    [j \in 1..(Len(cache) - 1) |-> IF j < k THEN cache[j] ELSE cache[j + 1]]

\* a call through the wrapper, computed being the outcome of the wrapped
\* method: a hit returns the stored result without running the method and
\* makes the entry the most recently used; a miss runs the method and
\* stores its return value, evicting the least recently used entry of a
\* full cache; an exception is not stored
LruCall(cache, key, computed) ==
    IF CachePlace(cache, key) # 0
    THEN [out |-> [cache[CachePlace(cache, key)].out EXCEPT !.calls = <<>>],
          cache |-> Append(WithoutPlace(cache, CachePlace(cache, key)),
                           cache[CachePlace(cache, key)])]
    ELSE IF computed.exc # "ok"
    THEN [out |-> computed, cache |-> cache]
    ELSE [out |-> computed,
          cache |-> Append(IF Len(cache) >= LRU_CACHE_MAX_SIZE
                           THEN Tail(cache) ELSE cache,
                           [key |-> key, out |-> computed])]

-----------------------------------------------------------------------------
(* The container and iterator protocols: __len__, __getitem__, __iter__,   *)
(* __next__.  A slice is the value [t |-> "slice", start, stop, step].     *)

\* the instance attribute _iter_position does not exist yet
Absent == [t |-> "absent", q |-> 0]

Slice_(start, stop, step) ==
    [t |-> "slice", q |-> 0, start |-> start, stop |-> stop, step |-> step]

__len__(s) == Ok(s._position_limit, <<>>)

\* the bound of slice.indices(length) for a start or stop that is given:
\* a negative value counts from the end, then the value is clamped
AdjustIndex(i, length, lower, upper) ==
    IF i < 0
    THEN IF i + length < lower THEN lower ELSE i + length
    ELSE IF i > upper THEN upper ELSE i

\* slice.indices(length), for a slice whose members are None or ints and
\* whose step is not zero: <<start, stop, step>> as TLA+ integers
SliceIndices(position, length) ==
    LET step == IF position.step = None THEN 1 ELSE position.step.q \div 4
        lower == IF step < 0 THEN 0 - 1 ELSE 0
        upper == IF step < 0 THEN length - 1 ELSE length
        start == IF position.start = None
                 THEN IF step < 0 THEN upper ELSE lower
                 ELSE AdjustIndex(position.start.q \div 4, length, lower, upper)
        stop == IF position.stop = None
                THEN IF step < 0 THEN lower ELSE upper
                ELSE AdjustIndex(position.stop.q \div 4, length, lower, upper)
    IN <<start, stop, step>>

\* [self.nth_term(i + 1) for i in range(i, stop, step)], continued from the
\* list `terms`
RECURSIVE TermsOfSlice(_, _, _, _, _, _)
TermsOfSlice(s, i, stop, step, terms, calls) ==
    IF (step > 0 /\ i >= stop) \/ (step < 0 /\ i <= stop)
    THEN OkList(terms, calls)
    ELSE LET term == nth_term(s, Int_(i + 1))
         IN IF term.exc # "ok" THEN WithCalls(calls, term)
            ELSE TermsOfSlice(s, i + step, stop, step,
                              Append(terms, term.val), calls \o term.calls)

__getitem__MutNoWrap(s, position) ==
    IF position.t = "int"
    THEN \* slip: a negative position is not counted from the end
         IF position.q < 0 \/ position.q >= s._position_limit.q
         THEN Raise("IndexError", <<>>)
         ELSE nth_term(s, [t |-> "int", q |-> position.q + 4])
    ELSE IF position.t = "slice"
    THEN IF \E m \in {position.start, position.stop, position.step} : m.t \notin {"none", "int"}
         THEN Raise("TypeError", <<>>)
         ELSE IF position.step = Int_(0)
         THEN Raise("ValueError", <<>>)
         ELSE LET r == SliceIndices(position, s._position_limit.q \div 4)
              IN TermsOfSlice(s, r[1], r[2], r[3], <<>>, <<>>)
    ELSE Raise("TypeError", <<>>)

__getitem__(s, position) ==
    IF position.t = "int"
    THEN LET _position ==
                IF position.q < 0
                THEN [t |-> "int", q |-> __len__(s).val.q + position.q]
                ELSE position
         IN IF _position.q < 0 \/ _position.q >= s._position_limit.q
            THEN Raise("IndexError", <<>>)
            ELSE nth_term(s, [t |-> "int", q |-> _position.q + 4])
    ELSE IF position.t = "slice"
    THEN \* slice.indices raises TypeError for a member that is neither None
         \* nor an int, and ValueError for a zero step
         IF \E m \in {position.start, position.stop, position.step} : m.t \notin {"none", "int"}
         THEN Raise("TypeError", <<>>)
         ELSE IF position.step = Int_(0)
         THEN Raise("ValueError", <<>>)
         ELSE LET r == SliceIndices(position, s._position_limit.q \div 4)
              IN TermsOfSlice(s, r[1], r[2], r[3], <<>>, <<>>)
    ELSE Raise("TypeError", <<>>)

\* the value __iter__ gives to self._iter_position
__iter__(s) == Int_(INITIAL_POSITION)

\* self._iter_position as __next__ reads it after its hasattr test
CursorOf(iter_position) ==
    IF iter_position = Absent THEN Int_(INITIAL_POSITION) ELSE iter_position

__next__MutRetry(s, iter_position) ==
    IF CursorOf(iter_position).q > s._position_limit.q
    THEN [out |-> Raise("StopIteration", <<>>),
          _iter_position |-> CursorOf(iter_position)]
    ELSE [out |-> nth_term(s, CursorOf(iter_position)),
          _iter_position |->
              \* slip: the cursor moves on only when the term was computed
              IF nth_term(s, CursorOf(iter_position)).exc # "ok"
              THEN CursorOf(iter_position)
              ELSE [t |-> "int", q |-> CursorOf(iter_position).q + 4]]

__next__MutEarlyStop(s, iter_position) ==
    \* slip: the cursor is advanced before the exhaustion test
    IF CursorOf(iter_position).q + 4 > s._position_limit.q
    THEN [out |-> Raise("StopIteration", <<>>),
          _iter_position |-> CursorOf(iter_position)]
    ELSE [out |-> nth_term(s, CursorOf(iter_position)),
          _iter_position |->
              [t |-> "int", q |-> CursorOf(iter_position).q + 4]]

\* __next__: the outcome and the value self._iter_position is left with
__next__(s, iter_position) ==
    IF CursorOf(iter_position).q > s._position_limit.q
    THEN [out |-> Raise("StopIteration", <<>>),
          _iter_position |-> CursorOf(iter_position)]
    ELSE [out |-> nth_term(s, CursorOf(iter_position)),
          _iter_position |->
              [t |-> "int", q |-> CursorOf(iter_position).q + 4]]

-----------------------------------------------------------------------------
(* The state machine: one instance, built by __init__, and a caller that   *)
(* makes one call at a time and takes its outcome.                         *)

FuncArgs == {"shift_x", "absolute_x", "double_x"}

InverseFuncArgs == {NoFunc, "unshift_x", "half_up_x", "none_x"}

IndexingFuncArgs == {NoFunc, "identity_x", "shift_x"}

IndexingInverseFuncArgs == {NoFunc, "identity_x", "unshift_x"}

InitialIndexArgs == {None, Int_(1)}

PositionLimitArgs == {None, Int_(3)}

\* values passed as positions
PositionArgs ==
    {Int_(n) : n \in -1..(MaxArg + 2)} \cup {Float_(6), Float_(8), None, Str}

NoCall == [op |-> "none", args |-> <<>>, exc |-> "ok", val |-> None,
           list |-> <<>>, calls |-> <<>>]

Returned(op, args, o) ==
    [op |-> op, args |-> args, exc |-> o.exc, val |-> o.val,
     list |-> o.list, calls |-> o.calls]

\* functions passed as func whose terms cannot be evaluated at index 0
\* (floordiv_x) or cannot be added or subtracted (none_x)
FailingFuncArgs == {"floordiv_x", "none_x"}

\* values passed as a function that __init__ rejects: functions of zero
\* and of two parameters, and an object that is not a function
BadFuncArgs == {"zero_args", "two_args_xy", "not_a_function"}

\* functions passed as indexing_inverse_func that are not the inverse of
\* the indexing_func: they map some integral index to a non-integral
\* position (half_up_x) and some non-integral index to an integral one
\* (double_x)
InconsistentInverseArgs == {"double_x", "half_up_x"}

\* the keyword arguments of the constructions that are modelled
KwargsArgs ==
    [func : FuncArgs,
     inverse_func : InverseFuncArgs,
     indexing_func : IndexingFuncArgs,
     indexing_inverse_func : IndexingInverseFuncArgs,
     initial_index : InitialIndexArgs,
     position_limit : PositionLimitArgs]
    \cup
    [func : FailingFuncArgs,
     inverse_func : {NoFunc},
     indexing_func : IndexingFuncArgs,
     indexing_inverse_func : {NoFunc},
     initial_index : InitialIndexArgs,
     position_limit : PositionLimitArgs]
    \cup
    [func : FuncArgs,
     inverse_func : {"unshift_x", "half_up_x"},
     indexing_func : {"identity_x"},
     indexing_inverse_func : InconsistentInverseArgs,
     initial_index : {None},
     position_limit : PositionLimitArgs]
    \cup
    [func : {NoFunc, "shift_x"} \cup BadFuncArgs,
     inverse_func : {NoFunc, "unshift_x"} \cup BadFuncArgs,
     indexing_func : {NoFunc, "identity_x"} \cup BadFuncArgs,
     indexing_inverse_func : {NoFunc, "identity_x"} \cup BadFuncArgs,
     initial_index : {None},
     position_limit : {None}]

\* the state after NSequence(**kwargs): the instance, or the exception
\* __init__ raised
Init ==
    /\ kwargs \in KwargsArgs
    /\ self = IF ValidateFuncs(kwargs) = "ok" THEN NSequenceInit(kwargs)
              ELSE NoInstance
    /\ ret = IF ValidateFuncs(kwargs) = "ok" THEN NoCall
             ELSE Returned("__init__", <<>>,
                           Raise(ValidateFuncs(kwargs), <<>>))
    /\ _iter_position = Absent
    /\ nexts = [total |-> 0, since |-> 0]
    /\ caches = [m \in CachedMethods |-> <<>>]

NthTerm ==
    /\ ret.op = "none"
    /\ \E n \in PositionArgs :
        ret' = Returned("nth_term", <<n>>, nth_term(self, n))
    /\ UNCHANGED <<kwargs, self, _iter_position, nexts, caches>>

SumUpToNthTerm ==
    /\ ret.op = "none"
    /\ \E n \in PositionArgs :
        ret' = Returned("sum_up_to_nth_term", <<n>>,
                        sum_up_to_nth_term(self, n))
    /\ UNCHANGED <<kwargs, self, _iter_position, nexts, caches>>

\* values passed as terms
TermArgs == {Int_(n) : n \in 0..MaxArg} \cup {Float_(6), None, Str}

\* values passed as indices
IndexArgs == {Int_(n) : n \in -1..MaxArg} \cup {Float_(6)}

PositionOfIndex ==
    /\ ret.op = "none"
    /\ \E index \in IndexArgs :
        ret' = Returned("position_of_index", <<index>>,
                        position_of_index(self, index))
    /\ UNCHANGED <<kwargs, self, _iter_position, nexts, caches>>

IndexOfTerm ==
    /\ ret.op = "none"
    /\ \E term \in TermArgs, inversion_technic \in BOOLEAN,
          exact_exception \in BOOLEAN :
        ret' = Returned("index_of_term",
                        <<term, inversion_technic, exact_exception>>,
                        index_of_term(self, term, inversion_technic,
                                      exact_exception))
    /\ UNCHANGED <<kwargs, self, _iter_position, nexts, caches>>

CountTermsBetweenIndices ==
    /\ ret.op = "none"
    /\ \E index1 \in IndexArgs, index2 \in IndexArgs :
        ret' = Returned("count_terms_between_indices", <<index1, index2>>,
                        count_terms_between_indices(self, index1, index2))
    /\ UNCHANGED <<kwargs, self, _iter_position, nexts, caches>>

TermsBetweenIndices ==
    /\ ret.op = "none"
    /\ \E index1 \in IndexArgs, index2 \in IndexArgs :
        ret' = Returned("terms_between_indices", <<index1, index2>>,
                        terms_between_indices(self, index1, index2))
    /\ UNCHANGED <<kwargs, self, _iter_position, nexts, caches>>

CountTermsBetweenTerms ==
    /\ ret.op = "none"
    /\ \E term1 \in TermArgs, term2 \in TermArgs :
        ret' = Returned("count_terms_between_terms", <<term1, term2>>,
                        count_terms_between_terms(self, term1, term2))
    /\ UNCHANGED <<kwargs, self, _iter_position, nexts, caches>>

TermsBetweenTerms ==
    /\ ret.op = "none"
    /\ \E term1 \in TermArgs, term2 \in TermArgs :
        ret' = Returned("terms_between_terms", <<term1, term2>>,
                        terms_between_terms(self, term1, term2))
    /\ UNCHANGED <<kwargs, self, _iter_position, nexts, caches>>

\* values passed as starting_position and iter_limit
ScanArgs == {None} \cup {Int_(n) : n \in 2..(MaxArg - 1)}

\* values passed as term_neighbor: the terms and, beyond them, the term
\* shift_x has at position POSITION_LIMIT under identity indexing
NeighborArgs == TermArgs \cup {Int_(POSITION_LIMIT + 3)}

NearestEntry ==
    /\ ret.op = "none"
    /\ \E term_neighbor \in NeighborArgs, inversion_technic \in BOOLEAN,
          starting_position \in ScanArgs, iter_limit \in ScanArgs,
          prefer_left_term \in BOOLEAN :
        ret' = Returned("nearest_entry",
                        <<term_neighbor, inversion_technic, starting_position,
                          iter_limit, prefer_left_term>>,
                        nearest_entry(self, term_neighbor, inversion_technic,
                                      starting_position, iter_limit,
                                      prefer_left_term))
    /\ UNCHANGED <<kwargs, self, _iter_position, nexts, caches>>

InitialIndex ==
    /\ ret.op = "none"
    /\ ret' = Returned("initial_index", <<>>, initial_index(self))
    /\ UNCHANGED <<kwargs, self, _iter_position, nexts, caches>>

InitialTerm ==
    /\ ret.op = "none"
    /\ ret' = Returned("initial_term", <<>>, initial_term(self))
    /\ UNCHANGED <<kwargs, self, _iter_position, nexts, caches>>

\* the caller takes the outcome of its call
Resume ==
    /\ ret.op \notin {"none", "__init__"}
    /\ ret' = NoCall
    /\ UNCHANGED <<kwargs, self, _iter_position, nexts, caches>>

Next ==
    \/ NthTerm
    \/ SumUpToNthTerm
    \/ PositionOfIndex
    \/ IndexOfTerm
    \/ CountTermsBetweenIndices
    \/ TermsBetweenIndices
    \/ CountTermsBetweenTerms
    \/ TermsBetweenTerms
    \/ NearestEntry
    \/ InitialIndex
    \/ InitialTerm
    \/ Resume

Spec == Init /\ [][Next]_vars

-----------------------------------------------------------------------------
(* The container and iterator protocols as a state machine of their own:   *)
(* sequences without inverse functions, read through len(), brackets,      *)
(* iter() and next()                                                       *)

\* the most __next__ calls made on one instance
MaxNexts == POSITION_LIMIT + 2

\* values passed as start and stop of a slice
SliceBoundArgs ==
    {None, Int_(0 - (POSITION_LIMIT + 1)), Int_(0 - 1), Int_(2),
     Int_(POSITION_LIMIT + 1), Float_(8)}

\* values passed as step of a slice
SliceStepArgs == {None, Int_(2), Int_(0 - 1), Int_(0 - 2), Int_(0)}

\* values passed between the brackets
GetItemArgs ==
    {Int_(k) : k \in (0 - (POSITION_LIMIT + 1))..(POSITION_LIMIT + 1)}
    \cup {Slice_(start, stop, step) : start \in SliceBoundArgs, stop \in SliceBoundArgs, step \in SliceStepArgs}
    \cup {Float_(8), None, Str}

InitSeq ==
    /\ Init
    /\ \/ kwargs.func \in FuncArgs
       \/ kwargs.func = "floordiv_x" /\ kwargs.indexing_func = NoFunc
    /\ kwargs.indexing_func \in IndexingFuncArgs
    /\ kwargs.inverse_func = NoFunc
    /\ kwargs.indexing_inverse_func = NoFunc

Length ==
    /\ ret.op = "none"
    /\ ret' = Returned("__len__", <<>>, __len__(self))
    /\ UNCHANGED <<kwargs, self, _iter_position, nexts, caches>>

GetItem ==
    /\ ret.op = "none"
    /\ \E position \in GetItemArgs :
        ret' = Returned("__getitem__", <<position>>,
                        __getitem__(self, position))
    /\ UNCHANGED <<kwargs, self, _iter_position, nexts, caches>>

Iter ==
    /\ ret.op = "none"
    /\ _iter_position' = __iter__(self)
    /\ nexts' = [nexts EXCEPT !.since = 0]
    /\ ret' = Returned("__iter__", <<>>, Ok(None, <<>>))
    /\ UNCHANGED <<kwargs, self, caches>>

NextItem ==
    /\ ret.op = "none"
    /\ nexts.total < MaxNexts
    /\ _iter_position' = __next__(self, _iter_position)._iter_position
    /\ nexts' = [total |-> nexts.total + 1, since |-> nexts.since + 1]
    /\ ret' = Returned("__next__", <<>>, __next__(self, _iter_position).out)
    /\ UNCHANGED <<kwargs, self, caches>>

NextSeq ==
    \/ Length
    \/ GetItem
    \/ Iter
    \/ NextItem
    \/ Resume

SpecSeq == InitSeq /\ [][NextSeq]_vars

-----------------------------------------------------------------------------
(* The memoized methods as a state machine of their own: two instances     *)
(* built from the same keyword arguments, called through the lru_cache     *)
(* wrappers of the class                                                   *)

\* the two instances
Instances == {1, 2}

\* values passed as index to position_of_index
CachedIndexArgs == {Int_(1), Float_(4), Int_(2)}

\* values passed as term to index_of_term
CachedTermArgs == {Int_(3)}

\* values passed as term_neighbor to nearest_entry
CachedNeighborArgs == {Int_(4)}

InitCache ==
    /\ Init
    /\ kwargs.func = "shift_x"
    /\ kwargs.inverse_func \in {NoFunc, "unshift_x"}
    /\ kwargs.indexing_func \in {NoFunc, "identity_x"}
    /\ kwargs.indexing_inverse_func = NoFunc
    /\ kwargs.initial_index = None
    /\ kwargs.position_limit = Int_(3)

CachedPositionOfIndex ==
    /\ ret.op = "none"
    /\ \E instance \in Instances, index \in CachedIndexArgs :
        \E computed \in {position_of_index(self, index)} :
        \E r \in {LruCall(caches["position_of_index"],
                          CacheKey(instance, <<index>>, <<>>), computed)} :
           /\ ret' = Returned("position_of_index", <<instance, index>>, r.out)
           /\ caches' = [caches EXCEPT !["position_of_index"] = r.cache]
    /\ UNCHANGED <<kwargs, self, _iter_position, nexts>>

CachedIndexOfTerm ==
    /\ ret.op = "none"
    /\ \E instance \in Instances, term \in CachedTermArgs, inversion_technic \in BOOLEAN :
        \E computed \in {index_of_term(self, term, inversion_technic, TRUE)} :
        \E r \in {LruCall(caches["index_of_term"],
                          CacheKey(instance, <<term>>,
                                   <<inversion_technic, TRUE>>),
                          computed)} :
           /\ ret' = Returned("index_of_term",
                              <<instance, term, inversion_technic, TRUE>>,
                              r.out)
           /\ caches' = [caches EXCEPT !["index_of_term"] = r.cache]
    /\ UNCHANGED <<kwargs, self, _iter_position, nexts>>

\* the lookup through the wrapper of _inversely_get_sequence_nearest_entry
CachedInverselyNearest(instance, term_neighbor, prefer_left_term) ==
    \E computed \in {_inversely_get_sequence_nearest_entry(
                         self, term_neighbor, prefer_left_term)} :
    \E r \in {LruCall(caches["_inversely_get_sequence_nearest_entry"],
                      CacheKey(instance, <<term_neighbor>>,
                               <<prefer_left_term>>),
                      computed)} :
       /\ ret' = Returned("nearest_entry",
                          <<instance, term_neighbor, TRUE, prefer_left_term>>,
                          r.out)
       /\ caches' = [caches EXCEPT
                       !["_inversely_get_sequence_nearest_entry"] = r.cache]

\* the lookup through the wrapper of _naively_get_sequence_nearest_entry,
\* with the defaults of starting_position and iter_limit
CachedNaivelyNearest(instance, term_neighbor, prefer_left_term) ==
    \E computed \in {_naively_get_sequence_nearest_entry(
                         self, term_neighbor, Int_(INITIAL_POSITION),
                         self._position_limit, prefer_left_term)} :
    \E r \in {LruCall(caches["_naively_get_sequence_nearest_entry"],
                      CacheKey(instance,
                               <<term_neighbor, Int_(INITIAL_POSITION),
                                 self._position_limit>>,
                               <<prefer_left_term>>),
                      computed)} :
       /\ ret' = Returned("nearest_entry",
                          <<instance, term_neighbor, FALSE, prefer_left_term>>,
                          IF r.out.exc \in ArithmeticFailures
                          THEN Raise("NotImplementedError", r.out.calls)
                          ELSE r.out)
       /\ caches' = [caches EXCEPT
                       !["_naively_get_sequence_nearest_entry"] = r.cache]

CachedNearestEntry ==
    /\ ret.op = "none"
    /\ \E instance \in Instances, term_neighbor \in CachedNeighborArgs, inversion_technic \in BOOLEAN, prefer_left_term \in {TRUE} :
        IF inversion_technic /\ self._inverse_func = NoFunc
        THEN /\ ret' = Returned("nearest_entry",
                                <<instance, term_neighbor, inversion_technic,
                                  prefer_left_term>>,
                                Raise("InversionError", <<>>))
             /\ caches' = caches
        ELSE IF inversion_technic
        THEN CachedInverselyNearest(instance, term_neighbor, prefer_left_term)
        ELSE CachedNaivelyNearest(instance, term_neighbor, prefer_left_term)
    /\ UNCHANGED <<kwargs, self, _iter_position, nexts>>

NextCache ==
    \/ CachedPositionOfIndex
    \/ CachedIndexOfTerm
    \/ CachedNearestEntry
    \/ Resume

SpecCache == InitCache /\ [][NextCache]_vars

-----------------------------------------------------------------------------
(* The arguments of the call that returned, and the construction arguments *)
(* as the caller reads them                                                *)

\* the index the caller expects for position p: the supplied mapping, or
\* the linear one from the initial index that was passed (0 by default)
ExpectedIndexOf(p) ==
    IF kwargs.indexing_func # NoFunc THEN Lib(kwargs.indexing_func, p).val
    ELSE IF Truthy(kwargs.initial_index)
         THEN [t |-> "int", q |-> kwargs.initial_index.q + p.q - 4]
         ELSE [t |-> "int", q |-> p.q - 4]

\* p is a Python int inside [1, position_limit]
InPositionRange(p) ==
    /\ p.t = "int"
    /\ p.q >= 4
    /\ p.q <= self._position_limit.q

\* n is an integral number that is at least 1
IntegralFromOne(n) == n.t \in {"int", "float"} /\ n.q % 4 = 0 /\ n.q >= 4

\* the trace has a call of the function in role `role`
Called(role) == \E k \in 1..Len(ret.calls) : ret.calls[k][1] = role

-----------------------------------------------------------------------------
(* Claims *)

\* C1: for every integer position p with 1 <= p <= position_limit,
\* nth_term(p) returns func(indexing_func(p)), indexing_func being the
\* supplied mapping or else the default linear mapping.
C1_NthTermIsFuncOfIndex ==
    (ret.op = "nth_term" /\ InPositionRange(ret.args[1]))
        => /\ ret.exc = Lib(kwargs.func, ExpectedIndexOf(ret.args[1])).exc
           /\ ret.val = Lib(kwargs.func, ExpectedIndexOf(ret.args[1])).val

C1_Witness ==
    /\ ret.op = "nth_term"
    /\ ret.args[1] = self._position_limit
    /\ kwargs.indexing_func = "shift_x"
    /\ kwargs.func = "double_x"
    /\ ret.exc = "ok"
    /\ ret.val = Int_(2 * (ret.args[1].q \div 4 + 3) - 3)

\* C2: nth_term, sum_up_to_nth_term and count_terms_between_indices raise
\* UnexpectedPositionError when the position they validate is greater than
\* position_limit.
C2_PositionAboveLimitRejected ==
    /\ (ret.op \in {"nth_term", "sum_up_to_nth_term"}
        /\ IsNumber(ret.args[1])
        /\ ret.args[1].q > self._position_limit.q)
            => ret.exc = "UnexpectedPositionError"
    /\ (ret.op = "count_terms_between_indices" /\ ret.exc = "ok")
            => \A k \in 1..2 :
                 position_of_index(self, ret.args[k]).val.q
                    <= self._position_limit.q

\* C3: nth_term(n) and sum_up_to_nth_term(n) raise UnexpectedPositionError
\* when n is not an integral number or n < 1, and func is not evaluated.
C3_BadPositionRejected ==
    (ret.op \in {"nth_term", "sum_up_to_nth_term"}
     /\ ~IntegralFromOne(ret.args[1]))
        => /\ ret.exc = "UnexpectedPositionError"
           /\ ~Called("func")

C3_Witness ==
    /\ ret.op = "sum_up_to_nth_term"
    /\ ret.args[1] = Float_(6)
    /\ ret.exc = "UnexpectedPositionError"
    /\ ret.calls = <<>>

\* the index resolves to a valid position: position_of_index returns an int
\* that is at least 1
ResolvesToPosition(index) ==
    /\ IsNumber(index)
    /\ position_of_index(self, index).exc = "ok"
    /\ position_of_index(self, index).val.t = "int"
    /\ position_of_index(self, index).val.q >= 4

\* the position (as a TLA+ integer) position_of_index resolves for index
ResolvedPosition(index) == position_of_index(self, index).val.q \div 4

\* [nth_term(p) for p in first..last], in increasing position order
TermsOfPositions(first, last) ==
    [k \in 1..(last - first + 1) |-> nth_term(self, Int_(first + k - 1)).val]

\* C4: terms_between_indices(i1, i2) returns the same list as
\* terms_between_indices(i2, i1) for every pair of indices that resolve to
\* valid positions, also when i1 > i2.
C4_TermsBetweenIndicesOrderIndependent ==
    (ret.op = "terms_between_indices"
     /\ ResolvesToPosition(ret.args[1])
     /\ ResolvesToPosition(ret.args[2]))
        => /\ ret.exc = terms_between_indices(self, ret.args[2],
                                              ret.args[1]).exc
           /\ ret.list = terms_between_indices(self, ret.args[2],
                                               ret.args[1]).list

\* C5: terms_between_indices(i1, i2) returns nth_term(p), in increasing
\* position order, for every position p from the position of min(i1, i2)
\* to the position of max(i1, i2); terms_between_indices(i, i) is [func(i)].
C5_TermsBetweenIndicesIsRange ==
    (ret.op = "terms_between_indices"
     /\ ResolvesToPosition(ret.args[1])
     /\ ResolvesToPosition(ret.args[2]))
        => LET lo == IF ret.args[2].q < ret.args[1].q
                     THEN ret.args[2] ELSE ret.args[1]
               hi == IF ret.args[2].q < ret.args[1].q
                     THEN ret.args[1] ELSE ret.args[2]
           IN /\ ret.exc = "ok"
              /\ ret.list = TermsOfPositions(ResolvedPosition(lo),
                                             ResolvedPosition(hi))
              /\ (ret.args[1] = ret.args[2]
                  /\ PyEq(ExpectedIndexOf(Int_(ResolvedPosition(lo))), lo))
                    => ret.list = <<Lib(kwargs.func, ExpectedIndexOf(
                                          Int_(ResolvedPosition(lo)))).val>>

\* C6 (as stated): whenever indexing_inverse_func is supplied,
\* position_of_index(index) returns indexing_inverse_func(index) unchanged,
\* whether or not an indexing_func was supplied as well.
C6_SuppliedInverseAlwaysUsed ==
    (ret.op = "position_of_index" /\ kwargs.indexing_inverse_func # NoFunc)
        => /\ ret.exc = Lib(kwargs.indexing_inverse_func, ret.args[1]).exc
           /\ ret.val = Lib(kwargs.indexing_inverse_func, ret.args[1]).val

\* C6 (amended): when indexing_inverse_func is supplied together with an
\* indexing_func, position_of_index(index) returns
\* indexing_inverse_func(index) unchanged, without a scan; when no
\* indexing_func is supplied, a supplied indexing_inverse_func is replaced
\* by the default inverse and position_of_index(index) returns
\* index - initial_index + 1.
C6_SuppliedInverseUsedWithIndexingFunc ==
    /\ (ret.op = "position_of_index"
        /\ kwargs.indexing_inverse_func # NoFunc
        /\ kwargs.indexing_func # NoFunc)
            => /\ ret.exc = Lib(kwargs.indexing_inverse_func, ret.args[1]).exc
               /\ ret.val = Lib(kwargs.indexing_inverse_func, ret.args[1]).val
               /\ ~Called("indexing_func")
    /\ (ret.op = "position_of_index"
        /\ kwargs.indexing_inverse_func # NoFunc
        /\ kwargs.indexing_func = NoFunc)
            => /\ ret.exc = "ok"
               /\ ret.val.q = ret.args[1].q - self._initial_index.q + 4
               /\ ~Called("indexing_func")

C6_Witness ==
    /\ ret.op = "position_of_index"
    /\ kwargs.indexing_inverse_func = "unshift_x"
    /\ kwargs.indexing_func = "identity_x"
    /\ ret.args[1] = Int_(2)
    /\ ret.val = Int_(-1)

\* C7: if indexing_func is supplied, positions map to indices through it
\* and initial_index equals indexing_func(1) whatever initial_index was
\* passed; otherwise position p maps to index initial_index + p - 1 and
\* index i maps back to position i - initial_index + 1, initial_index
\* defaulting to 0.  In both cases initial_index == indexing_func(1) and
\* initial_term == nth_term(1).
C7_IndexingSchemeSelection ==
    /\ (ret.op = "initial_index")
            => /\ ret.val = ExpectedIndexOf(Int_(1))
               /\ (kwargs.indexing_func = NoFunc
                   /\ kwargs.initial_index = None) => ret.val = Int_(0)
    /\ (ret.op = "nth_term" /\ ret.exc = "ok" /\ ret.args[1].t = "int")
            => ret.calls[Len(ret.calls)]
                    = <<"func", ExpectedIndexOf(ret.args[1])>>
    /\ (ret.op = "position_of_index" /\ kwargs.indexing_func = NoFunc)
            => /\ ret.exc = "ok"
               /\ ret.val.q = ret.args[1].q - ExpectedIndexOf(Int_(1)).q + 4
    /\ (ret.op = "initial_term")
            => /\ ret.exc = nth_term(self, Int_(1)).exc
               /\ ret.val = nth_term(self, Int_(1)).val
               /\ ret.val = Lib(kwargs.func, ExpectedIndexOf(Int_(1))).val

C7_Witness ==
    /\ ret.op = "initial_index"
    /\ kwargs.indexing_func = "shift_x"
    /\ kwargs.initial_index = Int_(1)
    /\ ret.val = Int_(4)

\* the value index_of_term holds in `index` before the exact_exception
\* test, as the caller computes it: inverse_func(term) when an inverse_func
\* was supplied, else the outcome of the scan
ExpectedRawIndex(term) ==
    IF kwargs.inverse_func # NoFunc THEN Lib(kwargs.inverse_func, term)
    ELSE [exc |-> BruteForceIndexOfTerm(self, term).exc,
          val |-> BruteForceIndexOfTerm(self, term).val]

C9_NearestEntryStrategy ==
    (ret.op = "nearest_entry")
        => /\ (ret.args[2] /\ kwargs.inverse_func = NoFunc)
                => (ret.exc = "InversionError" /\ ret.calls = <<>>)
           /\ (ret.args[2] /\ kwargs.inverse_func # NoFunc)
                => /\ ret.exc # "InversionError"
                   /\ ~Called("inverse_func")
                        => ret.calls = <<>>
                   /\ ret.exc = _inversely_get_sequence_nearest_entry(
                                    self, ret.args[1], ret.args[5]).exc
                   /\ ret.list = _inversely_get_sequence_nearest_entry(
                                    self, ret.args[1], ret.args[5]).list
           /\ (~ret.args[2])
                => /\ ret.exc # "InversionError"
                   /\ ~Called("inverse_func")
                   /\ ~Called("indexing_inverse_func")
                   /\ LET naive == _naively_get_sequence_nearest_entry(
                                    self, ret.args[1],
                                    OrDefault(ret.args[3], Int_(1)),
                                    OrDefault(ret.args[4],
                                              self._position_limit),
                                    ret.args[5])
                      IN /\ ret.list = naive.list
                         /\ ret.exc = IF naive.exc \in ArithmeticFailures
                                      THEN "NotImplementedError"
                                      ELSE naive.exc

C9_Witness ==
    /\ ret.op = "nearest_entry"
    /\ ~ret.args[2]
    /\ kwargs.inverse_func = "unshift_x"
    /\ kwargs.func = "shift_x"
    /\ kwargs.indexing_func = NoFunc
    /\ kwargs.initial_index = None
    /\ ret.args[1] = Int_(4)
    /\ ret.args[3] = None
    /\ ret.exc = "ok"
    /\ ret.list = <<Int_(1), Int_(4)>>

-----------------------------------------------------------------------------
(* The sequence as the caller computes it from the construction arguments  *)

\* the term at position p (a TLA+ integer)
TermAt(p) == Lib(kwargs.func, ExpectedIndexOf(Int_(p))).val

\* the entry (index, term) at position p
EntryAt(p) == <<ExpectedIndexOf(Int_(p)), TermAt(p)>>

\* four times the distance between the value t and the term at position p
DistQ(t, p) == AbsQ(TermAt(p).q - t.q)

\* the positions a naive nearest_entry call with the arguments of ret scans
NaivePositions ==
    LET start == OrDefault(ret.args[3], Int_(1)).q \div 4
        limit == OrDefault(ret.args[4], self._position_limit).q \div 4
    IN start..(start + limit - 1)

\* the scanned positions whose term is at the minimum distance of ret.args[1]
NaiveNearestPositions ==
    {p \in NaivePositions :
        \A p2 \in NaivePositions :
            DistQ(ret.args[1], p) <= DistQ(ret.args[1], p2)}

MinOf(S) == CHOOSE x \in S : \A y \in S : x <= y

MaxOf(S) == CHOOSE x \in S : \A y \in S : x >= y

\* the position the inversion strategy computes for ret.args[1]
InversePosition ==
    position_of_index(self, Lib(kwargs.inverse_func, ret.args[1]).val).val

\* the two candidate positions of a nearest_entry call: the nearest scanned
\* positions (naive) or the two positions that bracket the computed
\* position (inversion)
CandidatePositions ==
    IF ret.args[2]
    THEN {PyFloor(InversePosition).q \div 4, PyCeil(InversePosition).q \div 4}
    ELSE NaiveNearestPositions

\* ret.args[1] is exactly equidistant from two candidate terms
Equidistant ==
    /\ Cardinality(CandidatePositions) >= 2
    /\ \A p \in CandidatePositions :
          DistQ(ret.args[1], p) = DistQ(ret.args[1], MinOf(CandidatePositions))

\* the outcome of the call of ret with prefer_left_term as given
NearestWithPreference(prefer_left_term) ==
    IF ret.args[5] = prefer_left_term
    THEN [exc |-> ret.exc, list |-> ret.list]
    ELSE [exc |-> nearest_entry(self, ret.args[1], ret.args[2], ret.args[3],
                                ret.args[4], prefer_left_term).exc,
          list |-> nearest_entry(self, ret.args[1], ret.args[2], ret.args[3],
                                 ret.args[4], prefer_left_term).list]

\* C11: nearest_entry(t, prefer_left_term=True) and
\* nearest_entry(t, prefer_left_term=False) return the same entry under the
\* same strategy, except when t is exactly equidistant from two candidate
\* terms; there True returns the lower-position candidate and False the
\* higher-position one.
C11_PreferenceOnlyBreaksTies ==
    (ret.op = "nearest_entry")
        => /\ NearestWithPreference(TRUE).exc = NearestWithPreference(FALSE).exc
           /\ (ret.exc = "ok")
                => IF Equidistant
                   THEN /\ NearestWithPreference(TRUE).list
                            = EntryAt(MinOf(CandidatePositions))
                        /\ NearestWithPreference(FALSE).list
                            = EntryAt(MaxOf(CandidatePositions))
                        /\ NearestWithPreference(TRUE).list
                            # NearestWithPreference(FALSE).list
                   ELSE NearestWithPreference(TRUE).list
                            = NearestWithPreference(FALSE).list

C11_Witness ==
    /\ ret.op = "nearest_entry"
    /\ ret.args[2]
    /\ ~ret.args[5]
    /\ kwargs.func = "double_x"
    /\ kwargs.inverse_func = "half_up_x"
    /\ kwargs.indexing_func = NoFunc
    /\ kwargs.initial_index = None
    /\ ret.args[1] = Int_(2)
    /\ ret.exc = "ok"
    /\ ret.list = <<Int_(3), Int_(3)>>
    /\ NearestWithPreference(TRUE).list = <<Int_(2), Int_(1)>>

\* the positions 1..position_limit of the instance
LimitPositions == 1..(self._position_limit.q \div 4)

\* inverse_func is the exact inverse of func
ExactInverse ==
    <<kwargs.func, kwargs.inverse_func>>
        \in {<<"shift_x", "unshift_x">>, <<"double_x", "half_up_x">>}

C13_CountBetweenIndices ==
    (/\ ret.op = "count_terms_between_indices"
     /\ position_of_index(self, ret.args[1]).exc = "ok"
     /\ position_of_index(self, ret.args[2]).exc = "ok")
        => IF /\ IntegralFromOne(position_of_index(self, ret.args[1]).val)
              /\ IntegralFromOne(position_of_index(self, ret.args[2]).val)
           THEN /\ ret.exc = "ok"
                /\ ret.val.q
                    = 4 * (AbsQ(ResolvedPosition(ret.args[2])
                                - ResolvedPosition(ret.args[1])) + 1)
                /\ count_terms_between_indices(self, ret.args[2],
                                               ret.args[1]).exc = "ok"
                /\ count_terms_between_indices(self, ret.args[2],
                                               ret.args[1]).val = ret.val
                /\ (ret.args[1] = ret.args[2]) => PyEq(ret.val, Int_(1))
           ELSE ret.exc = "UnexpectedPositionError"

C13_Witness ==
    /\ ret.op = "count_terms_between_indices"
    /\ ResolvesToPosition(ret.args[1])
    /\ ResolvesToPosition(ret.args[2])
    /\ ResolvedPosition(ret.args[1]) = ResolvedPosition(ret.args[2]) + 2
    /\ ret.exc = "ok"
    /\ ret.val = Int_(3)

\* func evaluates at every position from 1 to p
TermsEvaluateUpTo(p) ==
    \A p2 \in 1..p : Lib(kwargs.func, ExpectedIndexOf(Int_(p2))).exc = "ok"

\* the positions, among those of S, whose term equals the value t
PositionsOfTerm(S, t) == {p \in S : PyEq(TermAt(p), t)}

\* the positions that lie both within position_limit and within the scan
\* of the module constant POSITION_LIMIT
ScannedLimitPositions == LimitPositions \cap (1..(POSITION_LIMIT - 1))

\* C20: brute-force index_of_term has first-match semantics: it returns
\* indexing_func(p*) where p* is the smallest scanned position with
\* nth_term(p*) == term, also when func is not injective.
C20_FirstMatch ==
    (/\ ret.op = "index_of_term"
     /\ kwargs.inverse_func = NoFunc
     /\ ~ret.args[2]
     /\ IsNumber(ret.args[1])
     /\ PositionsOfTerm(ScannedLimitPositions, ret.args[1]) # {}
     /\ TermsEvaluateUpTo(
            MinOf(PositionsOfTerm(ScannedLimitPositions, ret.args[1]))))
        => /\ ret.exc = "ok"
           /\ ret.val
                = ExpectedIndexOf(Int_(
                    MinOf(PositionsOfTerm(ScannedLimitPositions,
                                          ret.args[1]))))

C20_Witness ==
    /\ ret.op = "index_of_term"
    /\ kwargs.inverse_func = NoFunc
    /\ ~ret.args[2]
    /\ kwargs.func = "absolute_x"
    /\ Cardinality(PositionsOfTerm(ScannedLimitPositions, ret.args[1])) = 2
    /\ ret.exc = "ok"
    /\ ret.val
        = ExpectedIndexOf(Int_(
            MinOf(PositionsOfTerm(ScannedLimitPositions, ret.args[1]))))

\* C18: in brute-force mode index_of_term scans exactly the positions
\* 1..position_limit of the instance: a term that occurs at a position
\* p <= position_limit (p = position_limit included) is found, and a term
\* that occurs only at positions above position_limit is reported as not
\* found (None in non-exact mode, UnexpectedIndexError in exact mode).
C18_ScanCoversPositionLimit ==
    (/\ ret.op = "index_of_term"
     /\ kwargs.inverse_func = NoFunc
     /\ ~ret.args[2]
     /\ IsNumber(ret.args[1])
     /\ TermsEvaluateUpTo(POSITION_LIMIT))
        => IF PositionsOfTerm(LimitPositions, ret.args[1]) # {}
           THEN /\ ret.exc = "ok"
                /\ \E p \in PositionsOfTerm(LimitPositions, ret.args[1]) :
                      ret.val = ExpectedIndexOf(Int_(p))
           ELSE IF ret.args[3]
                THEN ret.exc = "UnexpectedIndexError"
                ELSE ret.exc = "ok" /\ ret.val = None

\* the positions, among those of S, that indexing_func maps to the index i
PositionsOfIndex(S, i) == {p \in S : PyEq(ExpectedIndexOf(Int_(p)), i)}

\* C19: when no inverse indexing function is available,
\* position_of_index(index) returns the smallest position p in
\* [1, position_limit] with indexing_func(p) == index, and raises
\* IndexNotFoundError when no position in [1, position_limit] maps to index.
C19_PositionScanCoversPositionLimit ==
    (/\ ret.op = "position_of_index"
     /\ self._indexing_inverse_func = NoFunc
     /\ IsNumber(ret.args[1]))
        => IF PositionsOfIndex(LimitPositions, ret.args[1]) # {}
           THEN /\ ret.exc = "ok"
                /\ ret.val
                    = Int_(MinOf(PositionsOfIndex(LimitPositions,
                                                  ret.args[1])))
           ELSE ret.exc = "IndexNotFoundError"

\* four times nth_term(1) + ... + nth_term(n)
RECURSIVE SumQ(_)
SumQ(n) == IF n = 0 THEN 0 ELSE SumQ(n - 1) + TermAt(n).q

\* the term at position p cannot be evaluated, or it is not a number and so
\* cannot be added to or subtracted from one
TermArithmeticFails(p) ==
    \/ Lib(kwargs.func, ExpectedIndexOf(Int_(p))).exc \in ArithmeticFailures
    \/ ~IsNumber(TermAt(p))

\* C16: sum_up_to_nth_term(n) returns nth_term(1) + ... + nth_term(n) for
\* every valid position n; when the term arithmetic fails (TypeError,
\* ValueError or ArithmeticError while evaluating or adding terms),
\* sum_up_to_nth_term and the naive nearest_entry raise NotImplementedError
\* instead of letting the underlying error escape.
C16_SumOfTermsOrNotImplemented ==
    /\ (/\ ret.op = "sum_up_to_nth_term"
        /\ IntegralFromOne(ret.args[1])
        /\ ret.args[1].q <= self._position_limit.q)
          => IF \E p \in 1..(ret.args[1].q \div 4) : TermArithmeticFails(p)
             THEN ret.exc = "NotImplementedError"
             ELSE /\ ret.exc = "ok"
                  /\ ret.val.q = SumQ(ret.args[1].q \div 4)
    /\ (/\ ret.op = "nearest_entry"
        /\ ~ret.args[2]
        /\ \/ ~IsNumber(ret.args[1])
           \/ TermArithmeticFails(MinOf(NaivePositions)))
          => ret.exc = "NotImplementedError"

\* the four function arguments in the order func, inverse_func,
\* indexing_func, indexing_inverse_func
Candidates ==
    <<kwargs.func, kwargs.inverse_func, kwargs.indexing_func,
      kwargs.indexing_inverse_func>>

\* the k-th candidate is not acceptable: func must be a function of one
\* parameter, an optional candidate may also be None
Rejected(k) ==
    \/ Candidates[k] \in {"zero_args", "two_args_xy", "not_a_function"}
    \/ k = 1 /\ Candidates[k] = NoFunc

\* C17: construction validates the supplied functions in the order func,
\* inverse_func, indexing_func, indexing_inverse_func and raises at the
\* first failure: ArityMismatchError for a function whose parameter count
\* is not 1, TypeError for a value that is not a function; func is
\* mandatory, the optional candidates pass silently when None; no instance
\* exists after a failed validation.
C17_ValidationOrder ==
    IF \E k \in 1..4 : Rejected(k)
    THEN /\ ret.op = "__init__"
         /\ ret.exc
              = IF Candidates[MinOf({k \in 1..4 : Rejected(k)})]
                      \in {"zero_args", "two_args_xy"}
                THEN "ArityMismatchError"
                ELSE "TypeError"
         /\ ret.calls = <<>>
         /\ self = NoInstance
    ELSE /\ ret.op # "__init__"
         /\ self # NoInstance
         /\ self._func = kwargs.func
         /\ self._inverse_func = kwargs.inverse_func

C17_Witness ==
    /\ ret.op = "__init__"
    /\ kwargs.func = "shift_x"
    /\ kwargs.inverse_func = "two_args_xy"
    /\ kwargs.indexing_func = "not_a_function"
    /\ kwargs.indexing_inverse_func = NoFunc
    /\ ret.exc = "ArityMismatchError"
    /\ self = NoInstance

\* the length the caller expects: the position_limit passed, or the default
LenL == IF Truthy(kwargs.position_limit) THEN kwargs.position_limit.q \div 4 ELSE POSITION_LIMIT

\* the list L = [nth_term(1), ..., nth_term(position_limit)]
ListL == [p \in 1..LenL |-> TermAt(p)]

\* a start or stop of a list slice, counted from the end when negative
FromEnd(i) == IF i < 0 THEN i + LenL ELSE i

\* the 0-based offset of the first element of L[a:b:step]
SliceFirst(a, step) ==
    IF step > 0
    THEN IF a = None THEN 0
         ELSE IF FromEnd(a.q \div 4) < 0 THEN 0 ELSE FromEnd(a.q \div 4)
    ELSE IF a = None THEN LenL - 1
         ELSE IF FromEnd(a.q \div 4) > LenL - 1 THEN LenL - 1
         ELSE FromEnd(a.q \div 4)

\* the 0-based offset that ends L[a:b:step], itself excluded
SliceEnd(b, step) ==
    IF step > 0
    THEN IF b = None THEN LenL
         ELSE IF FromEnd(b.q \div 4) > LenL THEN LenL ELSE FromEnd(b.q \div 4)
    ELSE IF b = None THEN 0 - 1
         ELSE IF FromEnd(b.q \div 4) < 0 - 1 THEN 0 - 1
         ELSE FromEnd(b.q \div 4)

\* the number of elements of L[a:b:step]
SliceCount(a, b, step) ==
    Cardinality({j \in 0..LenL :
        IF step > 0
        THEN SliceFirst(a, step) + j * step < SliceEnd(b, step)
        ELSE SliceFirst(a, step) + j * step > SliceEnd(b, step)})

\* L[a:b:step] for a, b, step that are None or ints, step not zero
ListSlice(a, b, step) ==
    LET st == IF step = None THEN 1 ELSE step.q \div 4
    IN [j \in 1..SliceCount(a, b, st) |->
            ListL[SliceFirst(a, st) + (j - 1) * st + 1]]

\* what L[position] gives: the exception and the element or the list
ListItem(position) ==
    IF position.t = "int"
    THEN IF 0 <= position.q /\ position.q < 4 * LenL
         THEN [exc |-> "ok", val |-> ListL[(position.q \div 4) + 1],
               list |-> <<>>]
         ELSE IF 0 - (4 * LenL) <= position.q /\ position.q < 0
         THEN [exc |-> "ok", val |-> ListL[LenL + (position.q \div 4) + 1],
               list |-> <<>>]
         ELSE [exc |-> "IndexError", val |-> None, list |-> <<>>]
    ELSE IF position.t = "slice"
    THEN IF \E m \in {position.start, position.stop, position.step} : m.t \notin {"none", "int"}
         THEN [exc |-> "TypeError", val |-> None, list |-> <<>>]
         ELSE IF position.step = Int_(0)
         THEN [exc |-> "ValueError", val |-> None, list |-> <<>>]
         ELSE [exc |-> "ok", val |-> None,
               list |-> ListSlice(position.start, position.stop,
                                  position.step)]
    ELSE [exc |-> "TypeError", val |-> None, list |-> <<>>]

\* C14: bracket access is equivalent to indexing the list
\* L = [nth_term(1), ..., nth_term(position_limit)]: len(seq) is
\* position_limit; seq[k] is nth_term(k + 1) for 0 <= k < len and
\* seq[len + k] for -len <= k < 0, IndexError otherwise; seq[a:b:step] is
\* L[a:b:step], negative steps and out-of-range bounds included.
C14_BracketsIndexTheTermList ==
    /\ (ret.op = "__len__") => ret.exc = "ok" /\ ret.val = Int_(LenL)
    /\ (ret.op = "__getitem__" /\ TermsEvaluateUpTo(LenL))
        => /\ ret.exc = ListItem(ret.args[1]).exc
           /\ ret.val = ListItem(ret.args[1]).val
           /\ ret.list = ListItem(ret.args[1]).list
           /\ (ret.args[1].t = "int" /\ ret.exc = "ok" /\ ret.args[1].q < 0)
                => ret.val
                    = __getitem__(self, [t |-> "int",
                                         q |-> 4 * LenL + ret.args[1].q]).val

C14_Witness ==
    /\ ret.op = "__getitem__"
    /\ ret.args[1] = Slice_(Int_(POSITION_LIMIT + 1), None, Int_(0 - 2))
    /\ ret.exc = "ok"
    /\ Len(ret.list) >= 2
    /\ ret.list[1] = TermAt(LenL)
    /\ ret.list[2] = TermAt(LenL - 2)

\* C15: the k-th __next__ call since the most recent __iter__ (or since
\* construction when __iter__ was never called) returns nth_term(k) for
\* 1 <= k <= position_limit and raises StopIteration for every
\* k > position_limit; __iter__, at any moment, resets the cursor to
\* position 1.
C15_IterationProtocol ==
    /\ (ret.op = "__next__")
        => IF nexts.since <= LenL
           THEN /\ ret.exc
                    = Lib(kwargs.func, ExpectedIndexOf(Int_(nexts.since))).exc
                /\ ret.val = TermAt(nexts.since)
                /\ ret.val = nth_term(self, Int_(nexts.since)).val
           ELSE ret.exc = "StopIteration"
    /\ (ret.op = "__iter__")
        => /\ nexts.since = 0
           /\ _iter_position = Int_(1)
    /\ (_iter_position # Absent)
        => _iter_position.q
            = 4 * (IF nexts.since <= LenL THEN nexts.since + 1 ELSE LenL + 1)

C15_Witness ==
    /\ ret.op = "__next__"
    /\ nexts.total = 3
    /\ nexts.since = 1
    /\ ret.exc = "ok"
    /\ ret.val = TermAt(1)
    /\ _iter_position = Int_(2)

\* every term of the scanned positions evaluates to a number
NaiveTermsAreNumbers ==
    \A p \in NaivePositions :
        /\ Lib(kwargs.func, ExpectedIndexOf(Int_(p))).exc = "ok"
        /\ IsNumber(TermAt(p))

\* C21: naive nearest_entry considers exactly the positions
\* starting_position .. starting_position + iter_limit - 1 (defaults 1 and
\* position_limit) and returns the (index, term) pair with the minimum
\* absolute distance to term_neighbor among them; among several positions
\* at that minimum it returns the earliest when prefer_left_term is true
\* and the latest when it is false.
C21_NaiveScanWindow ==
    (/\ ret.op = "nearest_entry"
     /\ ~ret.args[2]
     /\ IsNumber(ret.args[1])
     /\ NaiveTermsAreNumbers)
        => /\ ret.exc = "ok"
           /\ ret.list
                = EntryAt(IF ret.args[5] THEN MinOf(NaiveNearestPositions)
                          ELSE MaxOf(NaiveNearestPositions))

C21_Witness ==
    /\ ret.op = "nearest_entry"
    /\ ~ret.args[2]
    /\ ret.args[3] = Int_(2)
    /\ ret.args[4] = Int_(2)
    /\ IsNumber(ret.args[1])
    /\ NaiveTermsAreNumbers
    /\ DistQ(ret.args[1], 1) < DistQ(ret.args[1], 2)
    /\ DistQ(ret.args[1], 2) < DistQ(ret.args[1], 3)
    /\ ret.exc = "ok"
    /\ ret.list = EntryAt(2)

\* the index the inversion strategy computes for ret.args[1]
InverseIndex == Lib(kwargs.inverse_func, ret.args[1]).val

\* a nearest_entry call with the inversion strategy whose index and
\* position were both computed and are numbers
InversionResolved ==
    /\ ret.op = "nearest_entry"
    /\ ret.args[2]
    /\ kwargs.inverse_func # NoFunc
    /\ IsNumber(ret.args[1])
    /\ Lib(kwargs.inverse_func, ret.args[1]).exc = "ok"
    /\ IsNumber(InverseIndex)
    /\ position_of_index(self, InverseIndex).exc = "ok"
    /\ IsNumber(InversePosition)

Integral(v) == v.q % 4 = 0

LeftBracket == PyFloor(InversePosition).q \div 4

RightBracket == PyCeil(InversePosition).q \div 4

\* the bracket the reference procedure chooses
ChosenBracket ==
    IF DistQ(ret.args[1], LeftBracket) < DistQ(ret.args[1], RightBracket)
    THEN LeftBracket
    ELSE IF DistQ(ret.args[1], LeftBracket) > DistQ(ret.args[1], RightBracket)
    THEN RightBracket
    ELSE IF ret.args[5] THEN LeftBracket ELSE RightBracket

\* C22: inversion-strategy nearest_entry, with idx = inverse_func(t) and
\* pos = position_of_index(idx): if both are integral it returns (idx, t)
\* without evaluating func; otherwise it compares |t - nth_term(floor(pos))|
\* and |t - nth_term(ceil(pos))|, picks the strictly nearer position, on
\* equal distances floor(pos) when prefer_left_term is true and ceil(pos)
\* when false, and returns (indexing_func(chosen), nth_term(chosen)).
C22_InversionProcedure ==
    /\ (InversionResolved /\ Integral(InverseIndex)
        /\ Integral(InversePosition))
          => /\ ret.exc = "ok"
             /\ ret.list = <<InverseIndex, ret.args[1]>>
             /\ ~Called("func")
    /\ (InversionResolved /\ ~Integral(InverseIndex)
        /\ ~Integral(InversePosition) /\ LeftBracket >= 1)
          => /\ ret.exc = "ok"
             /\ ret.list = EntryAt(ChosenBracket)

C22_Witness ==
    /\ InversionResolved
    /\ ~Integral(InverseIndex)
    /\ ~Integral(InversePosition)
    /\ LeftBracket >= 1
    /\ DistQ(ret.args[1], LeftBracket) > DistQ(ret.args[1], RightBracket)
    /\ ret.exc = "ok"
    /\ ret.list = EntryAt(RightBracket)

\* C23: inversion-strategy nearest_entry fails with UnexpectedIndexError
\* whenever the integrality of idx = inverse_func(t) and of
\* pos = position_of_index(idx) disagree, in both directions (pos integral
\* with idx non-integral, idx integral with pos non-integral); in neither
\* case is an entry returned.
C23_IntegralityMismatchRejected ==
    (InversionResolved /\ Integral(InverseIndex) # Integral(InversePosition))
        => /\ ret.exc = "UnexpectedIndexError"
           /\ ret.list = <<>>

\* the number of calls of func in the trace of the call that returned
FuncCallCount ==
    Cardinality({k \in 1..Len(ret.calls) : ret.calls[k][1] = "func"})

\* the scanned positions whose term is exactly ret.args[1]
ExactPositions == {p \in NaivePositions : DistQ(ret.args[1], p) = 0}

\* C24: early exit of the naive scan: with prefer_left_term true, as soon
\* as a position with distance exactly zero is evaluated the scan stops and
\* func is evaluated for no later position; with prefer_left_term false the
\* scan never stops early and evaluates all iter_limit positions, even
\* after an exact match.
C24_EarlyExit ==
    (/\ ret.op = "nearest_entry"
     /\ ~ret.args[2]
     /\ IsNumber(ret.args[1])
     /\ NaiveTermsAreNumbers)
        => /\ ret.exc = "ok"
           /\ FuncCallCount
                = IF ret.args[5] /\ ExactPositions # {}
                  THEN MinOf(ExactPositions) - MinOf(NaivePositions) + 1
                  ELSE Cardinality(NaivePositions)
           /\ \A k \in 1..Len(ret.calls) :
                (ret.calls[k][1] = "func" /\ ret.args[5]
                 /\ ExactPositions # {})
                    => \E p \in MinOf(NaivePositions)..MinOf(ExactPositions) :
                          ret.calls[k][2] = ExpectedIndexOf(Int_(p))

C24_Witness ==
    /\ ret.op = "nearest_entry"
    /\ ~ret.args[2]
    /\ ~ret.args[5]
    /\ IsNumber(ret.args[1])
    /\ NaiveTermsAreNumbers
    /\ ExactPositions # {}
    /\ MaxOf(ExactPositions) < MaxOf(NaivePositions)
    /\ ret.exc = "ok"
    /\ FuncCallCount = Cardinality(NaivePositions)
    /\ FuncCallCount >= 3

\* inverse_func and the indexing inverse are consistent with func and the
\* indexing: an exact inverse_func, and no inverse indexing function that
\* contradicts indexing_func
SelfConsistentInverse ==
    /\ ExactInverse
    /\ kwargs.indexing_inverse_func \notin InconsistentInverseArgs
    /\ (kwargs.indexing_func # NoFunc /\ kwargs.indexing_inverse_func # NoFunc)
        => <<kwargs.indexing_func, kwargs.indexing_inverse_func>>
              \in {<<"identity_x", "identity_x">>, <<"shift_x", "unshift_x">>}

\* C28: every entry (index, term) returned by a successful nearest_entry
\* call, under either strategy and given a self-consistent inverse_func, is
\* an entry of the sequence within its bounds: index == indexing_func(p)
\* and term == nth_term(p) for a position p with 1 <= p <= position_limit,
\* whatever term_neighbor, starting_position and iter_limit were passed.
C28_NearestEntryWithinBounds ==
    (/\ ret.op = "nearest_entry"
     /\ ret.exc = "ok"
     /\ ret.args[2] => SelfConsistentInverse)
        => \E p \in LimitPositions :
              /\ PyEq(ret.list[1], ExpectedIndexOf(Int_(p)))
              /\ PyEq(ret.list[2], TermAt(p))

\* C29: with the inversion strategy, a term_neighbor whose computed
\* position is non-integral with floor(pos) < 1 makes nearest_entry raise
\* UnexpectedPositionError from the evaluation of the left bracket; no
\* entry is returned for it, not even the first entry of the sequence.
C29_BeforeFirstTermRejected ==
    (InversionResolved /\ ~Integral(InversePosition) /\ LeftBracket < 1)
        => /\ ret.exc = "UnexpectedPositionError"
           /\ ret.list = <<>>
           /\ ~Called("func")

C29_Witness ==
    /\ InversionResolved
    /\ ~Integral(InversePosition)
    /\ LeftBracket = 0
    /\ RightBracket = 1
    /\ ExactInverse
    /\ ret.exc = "UnexpectedPositionError"

\* the number of calls of the function in role `role` in the trace
CallCount(role) ==
    Cardinality({k \in 1..Len(ret.calls) : ret.calls[k][1] = role})

\* C27: every search terminates within its bound: brute-force
\* position_of_index and brute-force index_of_term perform at most
\* POSITION_LIMIT evaluations and then return a result or report no match
\* (IndexNotFoundError, respectively None / UnexpectedIndexError), and the
\* naive nearest_entry scan performs at most iter_limit evaluations before
\* returning.
C27_SearchesAreBounded ==
    /\ (/\ ret.op = "position_of_index"
        /\ self._indexing_inverse_func = NoFunc
        /\ IsNumber(ret.args[1]))
          => /\ CallCount("indexing_func") <= POSITION_LIMIT
             /\ ret.exc \in {"ok", "IndexNotFoundError"}
             /\ (ret.exc = "IndexNotFoundError")
                  <=> (PositionsOfIndex(1..(POSITION_LIMIT - 1),
                                        ret.args[1]) = {})
    /\ (/\ ret.op = "index_of_term"
        /\ kwargs.inverse_func = NoFunc
        /\ ~ret.args[2]
        /\ TermsEvaluateUpTo(POSITION_LIMIT))
          => /\ CallCount("func") <= POSITION_LIMIT
             /\ ret.exc \in {"ok", "UnexpectedIndexError"}
             /\ (ret.exc = "UnexpectedIndexError") => ret.args[3]
             /\ (ret.exc = "ok" /\ ret.val = None) => ~ret.args[3]
    /\ (/\ ret.op = "nearest_entry"
        /\ ~ret.args[2])
          => CallCount("func") <= Cardinality(NaivePositions)

C27_Witness ==
    /\ ret.op = "position_of_index"
    /\ self._indexing_inverse_func = NoFunc
    /\ IsNumber(ret.args[1])
    /\ ret.exc = "IndexNotFoundError"
    /\ CallCount("indexing_func") = POSITION_LIMIT - 1

\* C30: a __next__ call whose term computation raises has already advanced
\* the cursor by one: the following __next__ call proceeds with the next
\* position and the failed position is never retried, so the cursor only
\* moves forward between two __iter__ calls and always stays in
\* [1, position_limit + 1].
C30_CursorOnlyAdvances ==
    [][/\ (_iter_position' # Absent)
            => /\ _iter_position'.q >= 4
               /\ _iter_position'.q <= 4 * (LenL + 1)
       /\ (ret'.op = "__next__" /\ ret.op = "none")
            => /\ _iter_position'.q >= CursorOf(_iter_position).q
               /\ (ret'.exc \notin {"ok", "StopIteration"})
                    => _iter_position'.q = CursorOf(_iter_position).q + 4
               /\ (ret'.exc = "ok")
                    => /\ _iter_position'.q = CursorOf(_iter_position).q + 4
                       /\ ret'.val = TermAt(CursorOf(_iter_position).q \div 4)
       /\ (ret'.op \notin {"__next__", "__iter__"})
            => _iter_position' = _iter_position]_vars

C30_Witness ==
    /\ ret.op = "__next__"
    /\ kwargs.func = "floordiv_x"
    /\ ExpectedIndexOf(Int_(1)) = Int_(0)
    /\ nexts.since = 2
    /\ nexts.total = 2
    /\ ret.exc = "ok"
    /\ ret.val = TermAt(2)
    /\ _iter_position = Int_(3)

-----------------------------------------------------------------------------
(* The lru_cache wrappers *)

\* the entries an instance has in a cache, least recently used first
EntriesOf(cache, instance) ==
    SelectSeq(cache, LAMBDA entry : entry.key.instance = instance)

\* C25: the memo caches are per instance: a call on one instance never adds
\* to, evicts from or otherwise changes the entries another instance has in
\* any cache
C25_CachesArePerInstance ==
    [][\A m \in CachedMethods, other \in Instances :
          (ret'.op # "none" /\ ret'.args[1] # other)
          => EntriesOf(caches'[m], other) = EntriesOf(caches[m], other)]_vars

\* the outcome of the call that returned, computed without any cache
Uncached ==
    IF ret.op = "position_of_index"
    THEN position_of_index(self, ret.args[2])
    ELSE IF ret.op = "index_of_term"
    THEN index_of_term(self, ret.args[2], ret.args[3], ret.args[4])
    ELSE nearest_entry(self, ret.args[2], ret.args[3], None, None,
                       ret.args[4])

\* C26: after any sequence of calls, a memoized operation returns what the
\* uncached computation returns for the same arguments (the same exception,
\* or the same value or tuple), and no cache holds more than
\* LRU_CACHE_MAX_SIZE entries
C26_CachesAreTransparentAndBounded ==
    /\ \A m \in CachedMethods : Len(caches[m]) <= LRU_CACHE_MAX_SIZE
    /\ ret.op \in {"position_of_index", "index_of_term", "nearest_entry"}
       => /\ ret.exc = Uncached.exc
          /\ ret.val = Uncached.val
          /\ ret.list = Uncached.list

====
